---- MODULE Spec2Model ----
(***************************************************************************)
(* Token authentication subsystem of congress-mcp:                         *)
(*   token_manager.py   TokenManager (sqlite tables tokens, token_usage)   *)
(*   token_security.py  RateLimiter                                        *)
(*   enactai_server_stateless.py / enactai_server_local_auth.py            *)
(*                      check_permission, handle_call_tool                 *)
(*                                                                         *)
(* SQL TEXT values are strings, INTEGER values are integers, a timestamp   *)
(* is the integer reading of the clock, and a nullable column or an        *)
(* Optional value is <<>> for NULL/None and <<v>> for the value v.         *)
(***************************************************************************)
EXTENDS Integers, Sequences, FiniteSets, TLC

(***************************************************************************)
(* Bounds of the model.                                                    *)
(***************************************************************************)
MaxDays == 2         \* days the clock runs while tokens are managed
MaxTime == 3         \* last reading of the clock while requests are rate limited
MaxLimit == 2        \* largest rate_limit of a token
MaxCalls == 4        \* is_rate_limited calls made for one token
MaxUse == 2          \* cap on usage_count of one token
MaxUsageRows == 1    \* cap on the rows of token_usage
MaxCallRows == 2     \* cap on the rows of token_usage the servers write
MaxSrvTime == 1      \* the servers' clock stops here (half hours)
MaxRotations == 2    \* most rotations of a token
MaxRestarts == 2     \* restarts of the process
MaxDbTime == 1       \* last reading of the clock of the TokenDatabase calls
MaxEvents == 2       \* cap on the usage table for log_usage
MaxStatsTime == 3    \* last reading of the clock of the usage statistics
MaxSweepEvents == 1  \* cap on the usage table while the sweeps run
MaxSweepUse == 1     \* cap on the successful validations while the sweeps run
MaxRetries == 3      \* largest MAX_RETRIES of a request

None == <<>>
Some(v) == <<v>>

\* the clock counts half hours: timedelta(hours=1) and timedelta(days=1)
HOUR == 2
DAY == 24 * HOUR

\* the values secrets.token_hex(8) and "enact_" + secrets.token_urlsafe(32) can
\* return, in the order in which unused ones are drawn
IdSeq == <<"id1", "id2">>
SecretSeq == <<"enact_a", "enact_b">>
Range(s) == {s[k] : k \in DOMAIN s}
TokenIds == Range(IdSeq)
Secrets == Range(SecretSeq)

VARIABLES
  now,            \* datetime.now(timezone.utc)
  secret_key,     \* TokenManager.secret_key
  tokens,         \* table tokens: id -> row
  token_usage,    \* table token_usage: sequence of rows, index = AUTOINCREMENT id
  ret,            \* the call made in the last step and its outcome (none after a tick)
  issued,         \* history: secret -> id, for the secrets create_token has returned
  successes,      \* history: id -> number of validate_token calls that returned details
  revoked,        \* history: ids for which revoke_token returned True
  created_days,   \* history: id -> the expires_days argument of its create_token
  usage_windows,  \* RateLimiter.usage_windows: token_id -> list of timestamps
  rl_args,        \* token_id -> the rate_limit and window_hours its calls pass
  rl_log,         \* history: token_id -> <<now, result>> of its is_rate_limited calls
  rl_calls,       \* thread -> the is_rate_limited call it is executing
  server,         \* the server program that runs: "stateless" or "local_auth"
  REQUIRE_AUTH,   \* module constant REQUIRE_AUTH of the server
  cache,          \* the response cache of the server: cache key -> cached_time
  call,           \* the handle_call_tool call being served
  current_token_info,  \* session token of enactai_server_local_auth
  conns,          \* concurrent validate_token / revoke_token calls, one connection each
  db_lock,        \* the connection that holds the write lock of tokens.db
  TOKEN_SECRET_KEY,  \* os.getenv("TOKEN_SECRET_KEY"): None when it is not set
  restarts        \* history: how often the process has been restarted

tmVars == <<now, secret_key, tokens, token_usage, ret, issued, successes, revoked, created_days>>
rlVars == <<usage_windows, rl_args, rl_log, rl_calls>>
srvVars == <<server, REQUIRE_AUTH, cache, call, current_token_info>>
concVars == <<conns, db_lock>>
envVars == <<TOKEN_SECRET_KEY, restarts>>
vars == <<tmVars, rlVars, srvVars, concVars, envVars>>

(***************************************************************************)
(* TokenManager (token_manager.py)                                         *)
(***************************************************************************)
\* hmac.new(secret_key, token, sha256).hexdigest(): a digest determined by
\* the key and the message, different from every message
_hash_token(token) == "hmac-sha256(" \o secret_key \o "," \o token \o ")"

\* the values secrets.token_hex(32) can return
KeySeq == <<"key", "key2">>

\* SECRET_KEY = os.getenv("TOKEN_SECRET_KEY", secrets.token_hex(32)), evaluated
\* when the module is loaded: the values it can take
SECRET_KEY ==
  IF TOKEN_SECRET_KEY # None THEN {TOKEN_SECRET_KEY[1]} ELSE Range(KeySeq)

\* the process ends and a new one starts: the module is loaded again and
\* TokenManager.__init__ runs on the database the old process left
Restart ==
  /\ restarts < MaxRestarts
  /\ restarts' = restarts + 1
  /\ secret_key' \in SECRET_KEY
  /\ ret' = [op |-> "restart"]
  /\ UNCHANGED <<now, tokens, token_usage, issued, successes, revoked, created_days,
                 TOKEN_SECRET_KEY>>

\* Python truthiness of an Optional[int]
Truthy(opt) == opt # None /\ opt[1] # 0

\* the function with one more pair
Extend(f, k, v) == [x \in DOMAIN f \cup {k} |-> IF x = k THEN v ELSE f[x]]

\* expires_at as create_token computes it
ExpiresAt(expires_days) ==
  IF Truthy(expires_days) THEN Some(now + expires_days[1] * DAY) ELSE None

\* INSERT INTO tokens: id is PRIMARY KEY, token_hash is UNIQUE
InsertViolates(token_id, token_hash) ==
  \/ token_id \in DOMAIN tokens
  \/ \E i \in DOMAIN tokens : tokens[i].token_hash = token_hash

\* a random draw returns a value drawn before or the next unused value
Draws(seq, used) ==
  used \cup {seq[k] : k \in {j \in DOMAIN seq :
                                 /\ seq[j] \notin used
                                 /\ \A h \in 1..(j - 1) : seq[h] \in used}}

create_token(name, permissions, expires_days) ==
  \E token_id \in Draws(IdSeq, DOMAIN tokens), token \in Draws(SecretSeq, DOMAIN issued) :
    LET token_hash == _hash_token(token)
        row == [name |-> name, token_hash |-> token_hash, created_at |-> now,
                last_used |-> None, expires_at |-> ExpiresAt(expires_days),
                permissions |-> permissions, active |-> 1, usage_count |-> 0]
    IN /\ IF InsertViolates(token_id, token_hash)
          THEN /\ ret' = [op |-> "create_token", raised |-> "IntegrityError",
                          duplicate |-> \E i \in DOMAIN tokens :
                                          tokens[i].token_hash = token_hash]
               /\ UNCHANGED <<tokens, issued, successes, created_days>>
          ELSE /\ tokens' = Extend(tokens, token_id, row)
               /\ ret' = [op |-> "create_token", raised |-> "", duplicate |-> FALSE,
                          result |-> <<token_id, token>>]
               /\ issued' = Extend(issued, token, token_id)
               /\ successes' = Extend(successes, token_id, 0)
               /\ created_days' = Extend(created_days, token_id, expires_days)
       /\ UNCHANGED <<now, secret_key, token_usage, revoked>>

\* the lookup without the condition on active
SelectByHashAnyState(token_hash) ==
  {i \in DOMAIN tokens : tokens[i].token_hash = token_hash}

\* SELECT ... FROM tokens WHERE token_hash = ? AND active = 1
SelectActiveByHash(token_hash) ==
  {i \in DOMAIN tokens : tokens[i].token_hash = token_hash /\ tokens[i].active = 1}

\* the dictionary validate_token builds from the selected row
TokenData(i) ==
  [id |-> i, name |-> tokens[i].name, created_at |-> tokens[i].created_at,
   last_used |-> tokens[i].last_used, expires_at |-> tokens[i].expires_at,
   permissions |-> tokens[i].permissions, active |-> tokens[i].active,
   usage_count |-> tokens[i].usage_count]

\* validation without the expiry check
NeverExpired(expires_at) == FALSE

\* "Check expiration" of validate_token
Expired(expires_at) == expires_at # None /\ now > expires_at[1]

\* the UPDATE with the count taken from the row the SELECT returned
UpdatedFromSelect(tbl, token_data) ==
  IF token_data.id \in DOMAIN tbl
  THEN [tbl EXCEPT ![token_data.id].last_used = Some(now),
                   ![token_data.id].usage_count = token_data.usage_count + 1]
  ELSE tbl

\* the table after UPDATE tokens SET last_used = ?, usage_count = usage_count + 1
\* WHERE id = ?
Updated(tbl, token_data) ==
  IF token_data.id \in DOMAIN tbl
  THEN [tbl EXCEPT ![token_data.id].last_used = Some(now),
                   ![token_data.id].usage_count = @ + 1]
  ELSE tbl

\* validate_token with the UPDATE issued before the expiry check
validate_token_update_first(token) ==
  LET rows == SelectActiveByHash(_hash_token(token))
  IN IF rows = {}
     THEN [result |-> None, tokens |-> tokens]
     ELSE LET i == CHOOSE r \in rows : TRUE
              token_data == TokenData(i)
              updated == [tokens EXCEPT ![i].last_used = Some(now),
                                        ![i].usage_count = @ + 1]
          IN IF Expired(token_data.expires_at)
             THEN [result |-> None, tokens |-> updated]
             ELSE [result |-> Some(token_data), tokens |-> updated]

\* validate_token as a function of the table: what it returns and the table it leaves
validate_token(token) ==
  LET rows == SelectActiveByHash(_hash_token(token))
  IN IF rows = {}
     THEN [result |-> None, tokens |-> tokens]
     ELSE LET i == CHOOSE r \in rows : TRUE
              token_data == TokenData(i)
          IN IF Expired(token_data.expires_at)
             THEN [result |-> None, tokens |-> tokens]
             ELSE [result |-> Some(token_data), tokens |-> Updated(tokens, token_data)]

\* the history of successful validations after a call that returned result
Counted(result) ==
  IF result = None \/ result[1].id \notin DOMAIN successes THEN successes
  ELSE [successes EXCEPT ![result[1].id] = @ + 1]

\* usage_count stays within the bound of the model
WithinUse(tbl) == \A i \in DOMAIN tbl : tbl[i].usage_count <= MaxUse

\* a call of TokenManager.validate_token
ValidateToken(token) ==
  LET v == validate_token(token)
  IN /\ WithinUse(v.tokens)
     /\ tokens' = v.tokens
     /\ ret' = [op |-> "validate_token", token |-> token, result |-> v.result]
     /\ successes' = Counted(v.result)
     /\ UNCHANGED <<now, secret_key, token_usage, issued, revoked, created_days>>

\* token_usage after the INSERT of record_usage
Recorded(token_id, endpoint, ip_address, status_code) ==
  Append(token_usage,
         [token_id |-> token_id, timestamp |-> now, endpoint |-> endpoint,
          ip_address |-> ip_address, status_code |-> status_code])

record_usage(token_id, endpoint, ip_address, status_code) ==
  /\ Len(token_usage) < MaxUsageRows
  /\ token_usage' = Recorded(token_id, endpoint, ip_address, status_code)
  /\ ret' = [op |-> "record_usage"]
  /\ UNCHANGED <<now, secret_key, tokens, issued, successes, revoked, created_days>>

revoke_token(token_id) ==
  LET affected == Cardinality({i \in DOMAIN tokens : i = token_id})
  IN /\ tokens' = [i \in DOMAIN tokens |->
                     IF i = token_id THEN [tokens[i] EXCEPT !.active = 0] ELSE tokens[i]]
     /\ ret' = [op |-> "revoke_token", token_id |-> token_id,
                result |-> affected > 0]
     /\ revoked' = IF affected > 0 THEN revoked \cup {token_id} ELSE revoked
     /\ UNCHANGED <<now, secret_key, token_usage, issued, successes, created_days>>

\* the WHERE of cleanup_expired without the comparison of expires_at
CleanupMatchesUnexpired(i) ==
  /\ tokens[i].expires_at # None
  /\ tokens[i].active = 1

\* WHERE expires_at IS NOT NULL AND expires_at < ? AND active = 1
CleanupMatches(i) ==
  /\ tokens[i].expires_at # None
  /\ tokens[i].expires_at[1] < now
  /\ tokens[i].active = 1

cleanup_expired ==
  LET hit == {i \in DOMAIN tokens : CleanupMatches(i)}
  IN /\ tokens' = [i \in DOMAIN tokens |->
                     IF i \in hit THEN [tokens[i] EXCEPT !.active = 0] ELSE tokens[i]]
     /\ ret' = [op |-> "cleanup_expired", result |-> Cardinality(hit)]
     /\ UNCHANGED <<now, secret_key, token_usage, issued, successes, revoked, created_days>>

\* dict(zip(columns, row)) with token_hash left in
ListedRowWithHash(i) ==
  [id |-> i, name |-> tokens[i].name, token_hash |-> tokens[i].token_hash,
   created_at |-> tokens[i].created_at,
   last_used |-> tokens[i].last_used, expires_at |-> tokens[i].expires_at,
   permissions |-> tokens[i].permissions, active |-> tokens[i].active,
   usage_count |-> tokens[i].usage_count]

\* dict(zip(columns, row)) with token_hash popped
ListedRow(i) ==
  [id |-> i, name |-> tokens[i].name, created_at |-> tokens[i].created_at,
   last_used |-> tokens[i].last_used, expires_at |-> tokens[i].expires_at,
   permissions |-> tokens[i].permissions, active |-> tokens[i].active,
   usage_count |-> tokens[i].usage_count]

\* the orders ORDER BY created_at DESC can return the rows ids in
OrderedByCreatedDesc(ids) ==
  {s \in [1..Cardinality(ids) -> ids] :
     /\ \A a, b \in 1..Cardinality(ids) : a # b => s[a] # s[b]
     /\ \A a, b \in 1..Cardinality(ids) :
          a < b => tokens[s[a]].created_at >= tokens[s[b]].created_at}

list_tokens(active_only) ==
  LET ids == {i \in DOMAIN tokens : active_only => tokens[i].active = 1}
  IN /\ \E s \in OrderedByCreatedDesc(ids) :
          ret' = [op |-> "list_tokens",
                  result |-> [k \in 1..Cardinality(ids) |-> ListedRow(s[k])]]
     /\ UNCHANGED <<now, secret_key, tokens, token_usage, issued, successes, revoked,
                    created_days>>

\* the clock advances by step, up to last
Tick(step, last) ==
  /\ now + step <= last
  /\ now' = now + step
  /\ ret' = [op |-> "none"]
  /\ UNCHANGED <<secret_key, tokens, token_usage, issued, successes, revoked,
                 created_days>>

(***************************************************************************)
(* RateLimiter (token_security.py)                                         *)
(***************************************************************************)
\* the timestamps of a list that the clean-up keeps
Kept(stamps, window_start) ==
  LET Keep(timestamp) == timestamp > window_start
  IN SelectSeq(stamps, Keep)

\* usage_windows[token_id] after "Clean up old entries"
Cleaned(token_id, window_start) ==
  IF token_id \in DOMAIN usage_windows
  THEN Kept(usage_windows[token_id], window_start)
  ELSE <<>>

\* is_rate_limited that records the timestamp of a limited call too
is_rate_limited_recording(token_id, rate_limit, window_hours) ==
  LET window_start == now - window_hours * HOUR
      cleaned == Cleaned(token_id, window_start)
  IN [result |-> Len(cleaned) >= rate_limit,
      usage_windows |-> Extend(usage_windows, token_id, Append(cleaned, now))]

\* is_rate_limited that limits only above the rate limit
is_rate_limited_above(token_id, rate_limit, window_hours) ==
  LET window_start == now - window_hours * HOUR
      cleaned == Cleaned(token_id, window_start)
  IN IF Len(cleaned) > rate_limit
     THEN [result |-> TRUE, usage_windows |-> Extend(usage_windows, token_id, cleaned)]
     ELSE [result |-> FALSE,
           usage_windows |-> Extend(usage_windows, token_id, Append(cleaned, now))]

\* is_rate_limited as a function of the windows: what it returns and the
\* windows it leaves
is_rate_limited(token_id, rate_limit, window_hours) ==
  LET window_start == now - window_hours * HOUR
      cleaned == Cleaned(token_id, window_start)
  IN IF Len(cleaned) >= rate_limit
     THEN [result |-> TRUE, usage_windows |-> Extend(usage_windows, token_id, cleaned)]
     ELSE [result |-> FALSE,
           usage_windows |-> Extend(usage_windows, token_id, Append(cleaned, now))]

\* a call of RateLimiter.is_rate_limited by one caller at a time
IsRateLimited(token_id) ==
  LET r == is_rate_limited(token_id, rl_args[token_id].rate_limit,
                           rl_args[token_id].window_hours)
  IN /\ Len(rl_log[token_id]) < MaxCalls
     /\ usage_windows' = r.usage_windows
     /\ ret' = [op |-> "is_rate_limited", token_id |-> token_id, result |-> r.result]
     /\ rl_log' = [rl_log EXCEPT ![token_id] = Append(@, <<now, r.result>>)]
     /\ UNCHANGED <<now, secret_key, tokens, token_usage, issued, successes, revoked,
                    created_days, rl_args, rl_calls>>

\* the threads that call the rate limiter
Threads == {"th1", "th2"}
Idle == [pc |-> "idle"]

\* the thread is executing a call for the token
Serving(th, token_id) ==
  rl_calls[th] # Idle /\ rl_calls[th].token_id = token_id

\* a thread enters is_rate_limited: now and window_start are computed
RLEnter(th, token_id) ==
  /\ rl_calls[th] = Idle
  /\ Len(rl_log[token_id]) + Cardinality({o \in Threads : Serving(o, token_id)}) < MaxCalls
  /\ rl_calls' = [rl_calls EXCEPT ![th] =
       [pc |-> "clean", token_id |-> token_id,
        rate_limit |-> rl_args[token_id].rate_limit, now |-> now,
        window_start |-> now - rl_args[token_id].window_hours * HOUR]]
  /\ UNCHANGED <<tmVars, usage_windows, rl_args, rl_log>>

\* "Clean up old entries"
RLClean(th) ==
  LET c == rl_calls[th]
  IN /\ c.pc = "clean"
     /\ usage_windows' = Extend(usage_windows, c.token_id,
                                 Cleaned(c.token_id, c.window_start))
     /\ rl_calls' = [rl_calls EXCEPT ![th].pc = "check"]
     /\ UNCHANGED <<tmVars, rl_args, rl_log>>

\* "Check if rate limit exceeded"
RLCheck(th) ==
  LET c == rl_calls[th]
  IN /\ c.pc = "check"
     /\ IF Len(usage_windows[c.token_id]) >= c.rate_limit
        THEN /\ rl_calls' = [rl_calls EXCEPT ![th] = Idle]
             /\ rl_log' = [rl_log EXCEPT ![c.token_id] = Append(@, <<c.now, TRUE>>)]
        ELSE /\ rl_calls' = [rl_calls EXCEPT ![th].pc = "record"]
             /\ UNCHANGED rl_log
     /\ UNCHANGED <<tmVars, usage_windows, rl_args>>

\* "Record this usage"
RLRecord(th) ==
  LET c == rl_calls[th]
  IN /\ c.pc = "record"
     /\ usage_windows' = [usage_windows EXCEPT ![c.token_id] = Append(@, c.now)]
     /\ rl_calls' = [rl_calls EXCEPT ![th] = Idle]
     /\ rl_log' = [rl_log EXCEPT ![c.token_id] = Append(@, <<c.now, FALSE>>)]
     /\ UNCHANGED <<tmVars, rl_args>>

(***************************************************************************)
(* TokenSecurity (token_security.py): the text of a secret.  A text is the *)
(* sequence of its characters.                                             *)
(***************************************************************************)
\* TOKEN_PREFIX = "enact_"
TOKEN_PREFIX == <<"e", "n", "a", "c", "t", "_">>

\* TOKEN_LENGTH = 32
TOKEN_LENGTH == 32

\* nbytes of secrets.token_urlsafe(32) in TokenManager.create_token
URLSAFE_NBYTES == 32

\* string.ascii_letters + string.digits
AsciiLettersDigits ==
  {"a", "b", "c", "d", "e", "f", "g", "h", "i", "j", "k", "l", "m", "n", "o", "p",
   "q", "r", "s", "t", "u", "v", "w", "x", "y", "z", "A", "B", "C", "D", "E", "F",
   "G", "H", "I", "J", "K", "L", "M", "N", "O", "P", "Q", "R", "S", "T", "U", "V",
   "W", "X", "Y", "Z", "0", "1", "2", "3", "4", "5", "6", "7", "8", "9"}

\* the alphabet of base64.urlsafe_b64encode
UrlsafeAlphabet == AsciiLettersDigits \cup {"-", "_"}

\* the characters the random parts of the model are made of
SampleChars == {"a", "Z", "7", "-", "_"}

\* the texts of n characters of the alphabet (sampled) that repeat one
\* character, but for one place
RandomTexts(alphabet, n) ==
  {[k \in 1..n |-> IF k = place THEN other ELSE filler] :
     filler \in alphabet \cap SampleChars, other \in alphabet \cap SampleChars,
     place \in {1, n}}

\* TokenSecurity.generate_token: the secrets it can return
generate_token ==
  {TOKEN_PREFIX \o random_part : random_part \in RandomTexts(AsciiLettersDigits, TOKEN_LENGTH)}

\* len(secrets.token_urlsafe(nbytes)): base64 of nbytes bytes without padding
UrlsafeLen(nbytes) == (4 * nbytes + 2) \div 3

\* f"enact_{secrets.token_urlsafe(32)}" of TokenManager.create_token: the
\* secrets it can return
create_token_secrets ==
  {<<"e", "n", "a", "c", "t", "_">> \o random_part :
     random_part \in RandomTexts(UrlsafeAlphabet, UrlsafeLen(URLSAFE_NBYTES))}

\* token.startswith(prefix)
StartsWith(token, prefix) ==
  Len(token) >= Len(prefix) /\ SubSeq(token, 1, Len(prefix)) = prefix

verify_token_format(token) ==
  IF ~StartsWith(token, TOKEN_PREFIX) THEN FALSE
  ELSE LET expected_length == Len(TOKEN_PREFIX) + TOKEN_LENGTH
       IN IF Len(token) # expected_length THEN FALSE
          ELSE LET random_part == SubSeq(token, Len(TOKEN_PREFIX) + 1, Len(token))
                   valid_chars == AsciiLettersDigits
               IN \A k \in DOMAIN random_part : random_part[k] \in valid_chars

\* verify_token_format applied to the secret of the call
VerifyTokenFormat ==
  /\ call.outcome = "input"
  /\ call' = [call EXCEPT !.outcome = "checked",
                          !.ok = verify_token_format(call.token)]
  /\ UNCHANGED <<tmVars, server, REQUIRE_AUTH, cache, current_token_info>>

(***************************************************************************)
(* IPValidator (token_security.py).  The text of an IPv4 address is the    *)
(* sequence of the numbers its dotted parts spell; a whitelist entry is    *)
(* the text before the '/' and, when it has a '/', the number after it.    *)
(***************************************************************************)
\* ipaddress.ip_address(text) does not raise ValueError
ParsesAsAddress(text) == Len(text) = 4 /\ \A k \in 1..4 : text[k] \in 0..255

\* the address ipaddress.ip_address(text) returns: its 32 bits, most
\* significant first
AddressBits(text) ==
  [k \in 1..32 |-> (text[((k - 1) \div 8) + 1] \div 2^(7 - ((k - 1) % 8))) % 2]

\* str(ip): the dotted text of an address
AddressText(ip) ==
  [j \in 1..4 |->
     LET b == 8 * (j - 1)
     IN 128 * ip[b + 1] + 64 * ip[b + 2] + 32 * ip[b + 3] + 16 * ip[b + 4]
          + 8 * ip[b + 5] + 4 * ip[b + 6] + 2 * ip[b + 7] + ip[b + 8]]

\* ipaddress.ip_network(allowed, strict=False) does not raise ValueError
ParsesAsNetwork(allowed) ==
  ParsesAsAddress(allowed.text) /\ allowed.prefix[1] \in 0..32

\* network.network_address and network.broadcast_address
NetworkAddress(allowed) ==
  [k \in 1..32 |-> IF k <= allowed.prefix[1] THEN AddressBits(allowed.text)[k] ELSE 0]
BroadcastAddress(allowed) ==
  [k \in 1..32 |-> IF k <= allowed.prefix[1] THEN AddressBits(allowed.text)[k] ELSE 1]

\* x <= y of two addresses
AddressLeq(x, y) ==
  x = y \/ \E k \in 1..32 : x[k] < y[k] /\ \A j \in 1..(k - 1) : x[j] = y[j]

\* ip in network, with the netmask one bit short
InNetworkShortMask(ip, allowed) ==
  \A k \in 1..(allowed.prefix[1] - 1) : ip[k] = AddressBits(allowed.text)[k]

\* ip in network
InNetwork(ip, allowed) ==
  AddressLeq(NetworkAddress(allowed), ip) /\ AddressLeq(ip, BroadcastAddress(allowed))

\* the for loop of is_ip_in_whitelist from entry k on; a ValueError of
\* ip_network ends the loop in the except clause, which returns False
RECURSIVE ScanWhitelist(_, _, _)
ScanWhitelist(ip, whitelist, k) ==
  IF k > Len(whitelist) THEN FALSE
  ELSE LET allowed == whitelist[k]
       IN IF allowed.prefix # None
          THEN IF ~ParsesAsNetwork(allowed) THEN FALSE
               ELSE IF InNetwork(ip, allowed) THEN TRUE
                    ELSE ScanWhitelist(ip, whitelist, k + 1)
          ELSE IF AddressText(ip) = allowed.text THEN TRUE
               ELSE ScanWhitelist(ip, whitelist, k + 1)

\* whitelist is None or Some(list); "not whitelist" holds of None and of []
is_ip_in_whitelist(ip_address, whitelist) ==
  IF whitelist = None \/ whitelist[1] = <<>> THEN TRUE
  ELSE IF ~ParsesAsAddress(ip_address) THEN FALSE
       ELSE ScanWhitelist(AddressBits(ip_address), whitelist[1], 1)

\* is_ip_in_whitelist applied to the address and the whitelist of the call
IsIpInWhitelist ==
  /\ call.outcome = "input"
  /\ call' = [call EXCEPT !.outcome = "checked",
                          !.ok = is_ip_in_whitelist(call.ip_address, call.whitelist)]
  /\ UNCHANGED <<tmVars, server, REQUIRE_AUTH, cache, current_token_info>>

(***************************************************************************)
(* TokenValidator (token_security.py).  token_data is the dict the caller  *)
(* passes: id, is_active, expires_at, allowed_tools, ip_whitelist and      *)
(* rate_limit.                                                             *)
(***************************************************************************)
\* TokenSecurity.hash_token: HMAC-SHA256 of the secret under the key
hash_token(token) == <<"hmac-sha256", secret_key, token>>

\* TokenSecurity.is_token_expired
is_token_expired(expires_at) ==
  IF expires_at = None THEN FALSE ELSE now > expires_at[1]

\* the (False, message) a check returns; the windows are as they were
Rejected(message) ==
  [result |-> <<FALSE, message>>, usage_windows |-> usage_windows]

\* the last check of validate_token_request: is_rate_limited with the
\* default window
RateLimitCheck(token_data) ==
  LET token_id == token_data.id
      r == is_rate_limited(token_id, token_data.rate_limit, 1)
  IN IF r.result
     THEN [result |-> <<FALSE, "Rate limit exceeded">>, usage_windows |-> r.usage_windows]
     ELSE [result |-> <<TRUE, "Token validated successfully">>,
           usage_windows |-> r.usage_windows]

\* the permission and whitelist checks of validate_token_request
ToolDenied(token_data, tool_name) ==
  token_data.allowed_tools # None /\ tool_name \notin Range(token_data.allowed_tools[1])

IpDenied(token_data, ip_address) ==
  /\ ip_address # None /\ ip_address[1] # <<>>
  /\ ~is_ip_in_whitelist(ip_address[1], token_data.ip_whitelist)

\* validate_token_request that asks the rate limiter right after the format
validate_token_request_rate_first(token, token_data, tool_name, ip_address) ==
  IF ~verify_token_format(token) THEN Rejected("Invalid token format")
  ELSE LET r == RateLimitCheck(token_data)
       IN IF ~r.result[1] THEN r
          ELSE IF ~token_data.is_active
          THEN [r EXCEPT !.result = <<FALSE, "Token is inactive or revoked">>]
          ELSE IF token_data.expires_at # None /\ is_token_expired(token_data.expires_at)
          THEN [r EXCEPT !.result = <<FALSE, "Token has expired">>]
          ELSE IF ToolDenied(token_data, tool_name)
          THEN [r EXCEPT !.result =
                  <<FALSE, "Token does not have permission for tool: " \o tool_name>>]
          ELSE IF IpDenied(token_data, ip_address)
          THEN [r EXCEPT !.result = <<FALSE, "IP address not in whitelist">>]
          ELSE r

\* TokenValidator.validate_token_request as a function of the windows:
\* the (is_valid, message) it returns and the windows it leaves
validate_token_request(token, token_data, tool_name, ip_address) ==
  IF ~verify_token_format(token) THEN Rejected("Invalid token format")
  ELSE IF ~token_data.is_active THEN Rejected("Token is inactive or revoked")
  ELSE IF token_data.expires_at # None /\ is_token_expired(token_data.expires_at)
  THEN Rejected("Token has expired")
  ELSE IF ToolDenied(token_data, tool_name)
  THEN Rejected("Token does not have permission for tool: " \o tool_name)
  ELSE IF IpDenied(token_data, ip_address)
  THEN Rejected("IP address not in whitelist")
  ELSE RateLimitCheck(token_data)

\* a call of TokenValidator.validate_token_request
ValidateTokenRequest(token, token_data, tool_name, ip_address) ==
  \E r \in {validate_token_request(token, token_data, tool_name, ip_address)} :
     /\ usage_windows' = r.usage_windows
     /\ call' = [outcome |-> "validated", token |-> token, token_data |-> token_data,
                 tool_name |-> tool_name, ip_address |-> ip_address,
                 result |-> r.result, before |-> usage_windows]
     /\ UNCHANGED <<tmVars, rl_args, rl_log, rl_calls, server, REQUIRE_AUTH, cache,
                    current_token_info>>

(***************************************************************************)
(* validate_token called from several threads.  Every call opens its own   *)
(* sqlite3 connection; the steps are its SQL statements.  A connection     *)
(* that writes takes the write lock of the database file at its UPDATE and *)
(* holds it until its COMMIT; while the lock is held the UPDATE of another *)
(* connection waits, and raises OperationalError when its timeout expires. *)
(***************************************************************************)
Done(result, raised, token_data) ==
  [pc |-> "done", result |-> result, raised |-> raised, token_data |-> token_data]

\* the calls that have selected the row and not yet returned
InFlight == {th \in Threads : conns[th].pc \in {"update", "commit"}}

\* the SELECT of validate_token, and the expiry check on the row it returns
VSelect(th, token) ==
  LET rows == SelectActiveByHash(_hash_token(token))
  IN /\ conns[th].pc \in {"idle", "done"}
     /\ IF rows = {}
        THEN conns' = [conns EXCEPT ![th] = Done(None, "", None)]
        ELSE LET i == CHOOSE r \in rows : TRUE
                 token_data == TokenData(i)
             IN /\ tokens[i].usage_count + Cardinality(InFlight) < MaxUse
                /\ IF Expired(token_data.expires_at)
                   THEN conns' = [conns EXCEPT ![th] = Done(None, "", None)]
                   ELSE conns' = [conns EXCEPT ![th] = [pc |-> "update",
                                                         token_data |-> token_data]]
     /\ UNCHANGED <<tmVars, db_lock>>

\* the UPDATE of validate_token: the connection takes the write lock, reads
\* the committed row and writes the new row in its own transaction
VUpdate(th) ==
  /\ conns[th].pc = "update"
  /\ db_lock = None
  /\ db_lock' = Some(th)
  /\ conns' = [conns EXCEPT ![th] = [pc |-> "commit",
                                      token_data |-> conns[th].token_data,
                                      pending |-> Updated(tokens, conns[th].token_data)]]
  /\ UNCHANGED tmVars

\* the UPDATE found the database locked until its timeout expired
VBusy(th) ==
  /\ conns[th].pc = "update"
  /\ db_lock # None
  /\ conns' = [conns EXCEPT ![th] = Done(None, "OperationalError",
                                         Some(conns[th].token_data))]
  /\ UNCHANGED <<tmVars, db_lock>>

\* conn.commit(), conn.close() and the return of token_data
VCommit(th) ==
  /\ conns[th].pc = "commit"
  /\ tokens' = conns[th].pending
  /\ db_lock' = None
  /\ successes' = Counted(Some(conns[th].token_data))
  /\ conns' = [conns EXCEPT ![th] = Done(Some(conns[th].token_data), "",
                                         Some(conns[th].token_data))]
  /\ UNCHANGED <<now, secret_key, token_usage, ret, issued, revoked, created_days>>

\* revoke_token called while validate_token calls are in flight: its UPDATE
\* and COMMIT when no other connection holds the write lock, and
\* OperationalError when the lock is held until its timeout expires
RevokeConcurrent(token_id) ==
  IF db_lock = None
  THEN revoke_token(token_id)
  ELSE /\ ret' = [op |-> "revoke_token", token_id |-> token_id,
                  raised |-> "OperationalError"]
       /\ UNCHANGED <<now, secret_key, tokens, token_usage, issued, successes, revoked,
                      created_days>>

(***************************************************************************)
(* The servers (enactai_server_stateless.py, enactai_server_local_auth.py) *)
(***************************************************************************)
\* CACHE_TTL = timedelta(minutes=5)
CACHE_TTL_MINUTES == 5

\* the tools handle_list_tools of the stateless server declares
AllTools ==
  {"authenticate", "search_bills", "get_bill", "get_member", "get_votes",
   "get_committee", "search_amendments", "get_current_congress",
   "get_congress_overview", "get_legislative_process"}

\* a read-only list that also holds get_votes
read_only_tools_with_votes ==
  {"search_bills", "get_bill", "get_member", "get_committee",
   "get_congress_overview", "get_legislative_process", "search_amendments",
   "get_votes"}

read_only_tools ==
  {"search_bills", "get_bill", "get_member", "get_committee",
   "get_congress_overview", "get_legislative_process", "search_amendments"}

\* the dictionary validate_token_inline returns when REQUIRE_AUTH is off
NoAuth == [permissions |-> "admin", name |-> "No Auth Required", id |-> "noauth"]

validate_token_inline(token) ==
  IF ~REQUIRE_AUTH THEN [result |-> Some(NoAuth), tokens |-> tokens]
  ELSE IF token = "" THEN [result |-> None, tokens |-> tokens]
  ELSE validate_token(token)

\* the permission decision on the tier of a token_info dictionary
TierPermits(token_info, tool_name) ==
  IF ~REQUIRE_AUTH THEN TRUE
  ELSE IF token_info = None THEN FALSE
  ELSE LET permissions == token_info[1].permissions
       IN IF permissions = "admin" THEN TRUE
          ELSE IF permissions = "standard" THEN TRUE
          ELSE IF permissions = "read_only" THEN tool_name \in read_only_tools
          ELSE FALSE

\* check_permission of the stateless server
check_permission(token_info, tool_name) == TierPermits(token_info, tool_name)

\* check_permission of the session server, on current_token_info
check_permission_local(tool_name) == TierPermits(current_token_info, tool_name)

\* cached_time is less than CACHE_TTL old
Fresh(cached_time) == (now - cached_time) * 60 < CACHE_TTL_MINUTES * HOUR

\* what a handle_call_tool call has done when it returns or reaches its
\* first await: the steps it took, in order, and the state it leaves
Out(outcome, trace, token_info, validated, tbl, usage, session) ==
  [outcome |-> outcome, trace |-> trace, token_info |-> token_info,
   validated |-> validated, tokens |-> tbl, token_usage |-> usage,
   current_token_info |-> session]

\* "Check cache", then "Execute the actual tool logic"
Serve(name, trace, token_info, validated, tbl, usage, session) ==
  IF name \in DOMAIN cache /\ Fresh(cache[name])
  THEN Out("cached", trace \o <<"cache_hit">>, token_info, validated, tbl, usage,
           session)
  ELSE Out("executing", trace \o <<"cache_miss", "execute">>, token_info, validated,
           tbl, usage, session)

\* handle_call_tool with the cache looked up before the token is validated
handle_call_tool_cache_first(name, token) ==
  LET v == validate_token_inline(token)
      info == v.result
  IN IF name # "authenticate" /\ name \in DOMAIN cache /\ Fresh(cache[name])
     THEN Out("cached", <<"cache_hit">>, None, None, tokens, token_usage,
              current_token_info)
     ELSE IF info = None
          THEN Out("authentication_required", <<"validate_token">>, None, info,
                   v.tokens, token_usage, current_token_info)
          ELSE IF ~check_permission(info, name)
               THEN Out("permission_denied", <<"validate_token", "check_permission">>,
                        info, info, v.tokens, token_usage, current_token_info)
               ELSE Serve(name, <<"validate_token", "check_permission">>, info, info,
                          v.tokens, token_usage, current_token_info)

\* handle_call_tool of the stateless server, up to its return or first await
handle_call_tool(name, token) ==
  LET v == validate_token_inline(token)
      info == v.result
      recorded == info # None /\ info[1].id # "noauth"
      usage(endpoint) == IF recorded THEN Recorded(info[1].id, endpoint, None, 200)
                         ELSE token_usage
      logged == IF recorded THEN <<"record_usage">> ELSE <<>>
  IN IF name = "authenticate"
     THEN IF info = None
          THEN Out("authentication_failed", <<"validate_token">>, None, info,
                   v.tokens, token_usage, current_token_info)
          ELSE Out("authenticated", <<"validate_token">> \o logged, info, info,
                   v.tokens, usage("authenticate"), current_token_info)
     ELSE IF REQUIRE_AUTH
          THEN IF info = None
               THEN Out("authentication_required", <<"validate_token">>, None, info,
                        v.tokens, token_usage, current_token_info)
               ELSE IF ~check_permission(info, name)
                    THEN Out("permission_denied",
                             <<"validate_token", "check_permission">>, info, info,
                             v.tokens, token_usage, current_token_info)
                    ELSE Serve(name,
                               <<"validate_token", "check_permission">> \o logged,
                               info, info, v.tokens, usage(name), current_token_info)
          ELSE Serve(name, <<>>, None, None, tokens, token_usage, current_token_info)

\* handle_call_tool of the session server, up to its return or first await
handle_call_tool_local(name, token) ==
  LET session == current_token_info
  IN IF name = "authenticate"
     THEN IF token = ""
          THEN Out("authentication_failed", <<>>, None, None, tokens, token_usage,
                   session)
          ELSE LET v == validate_token(token)
               IN IF v.result = None
                  THEN Out("authentication_failed", <<"validate_token">>, None,
                           v.result, v.tokens, token_usage, session)
                  ELSE Out("authenticated", <<"validate_token", "record_usage">>,
                           v.result, v.result, v.tokens,
                           Recorded(v.result[1].id, "authenticate", None, 200),
                           v.result)
     ELSE IF name = "get_token_info"
          THEN IF session = None
               THEN Out("not_authenticated", <<"session">>, None, None, tokens,
                        token_usage, session)
               ELSE Out("result", <<"session", "execute">>, session, None, tokens,
                        token_usage, session)
          ELSE IF REQUIRE_AUTH /\ session = None
               THEN Out("authentication_required", <<"session">>, None, None, tokens,
                        token_usage, session)
               ELSE IF ~check_permission_local(name)
                    THEN Out("permission_denied", <<"session", "check_permission">>,
                             session, None, tokens, token_usage, session)
                    ELSE IF session # None
                         THEN Serve(name,
                                    <<"session", "check_permission", "record_usage">>,
                                    session, None, tokens,
                                    Recorded(session[1].id, name, None, 200), session)
                         ELSE Serve(name, <<"session", "check_permission">>,
                                    session, None, tokens, token_usage, session)

\* a tool call arrives and is handled up to its return or first await
HandleCallTool(name, token) ==
  LET h == IF server = "stateless" THEN handle_call_tool(name, token)
           ELSE handle_call_tool_local(name, token)
  IN /\ call.outcome # "executing"
     /\ WithinUse(h.tokens)
     /\ Len(h.token_usage) <= MaxCallRows
     /\ tokens' = h.tokens
     /\ token_usage' = h.token_usage
     /\ current_token_info' = h.current_token_info
     /\ call' = [name |-> name, token |-> token, outcome |-> h.outcome,
                 trace |-> h.trace, token_info |-> h.token_info]
     /\ successes' = Counted(h.validated)
     /\ ret' = [op |-> "handle_call_tool"]
     /\ UNCHANGED <<now, secret_key, issued, revoked, created_days, server,
                    REQUIRE_AUTH, cache>>

\* the tool logic returns its result, which is cached
ToolReturns ==
  /\ call.outcome = "executing"
  /\ cache' = Extend(cache, call.name, now)
  /\ call' = [call EXCEPT !.outcome = "result", !.trace = @ \o <<"cache_store">>]
  /\ ret' = [op |-> "none"]
  /\ UNCHANGED <<now, secret_key, tokens, token_usage, issued, successes, revoked,
                 created_days, server, REQUIRE_AUTH, current_token_info>>

\* the tool logic raises, and the error is returned
ToolRaises ==
  /\ call.outcome = "executing"
  /\ call' = [call EXCEPT !.outcome = "error"]
  /\ ret' = [op |-> "none"]
  /\ UNCHANGED <<now, secret_key, tokens, token_usage, issued, successes, revoked,
                 created_days, server, REQUIRE_AUTH, cache, current_token_info>>

(***************************************************************************)
(* record_usage under a storage error: the INSERT of record_usage raises   *)
(* sqlite3.Error, which neither record_usage nor the part of               *)
(* handle_call_tool that calls it handles.                                 *)
(***************************************************************************)
\* the position of the call of record_usage in the steps of a handled call, or 0
RecordUsageAt(trace) ==
  IF \E k \in DOMAIN trace : trace[k] = "record_usage"
  THEN CHOOSE k \in DOMAIN trace : trace[k] = "record_usage"
  ELSE 0

\* a handled call whose record_usage raises when storage_error: the handler
\* is left at the call of record_usage, before the cache and the tool logic
record_usage_raising(h, storage_error) ==
  IF storage_error /\ RecordUsageAt(h.trace) > 0
  THEN [h EXCEPT !.outcome = "storage_error",
                 !.trace = SubSeq(@, 1, RecordUsageAt(h.trace)),
                 !.token_usage = token_usage]
  ELSE h

\* a tool call arrives while the usage table may refuse the INSERT
HandleCallToolStorage(name, token, storage_error) ==
  LET h == record_usage_raising(
             IF server = "stateless" THEN handle_call_tool(name, token)
             ELSE handle_call_tool_local(name, token), storage_error)
  IN /\ call.outcome # "executing"
     /\ WithinUse(h.tokens)
     /\ Len(h.token_usage) <= MaxCallRows
     /\ tokens' = h.tokens
     /\ token_usage' = h.token_usage
     /\ current_token_info' = h.current_token_info
     /\ call' = [name |-> name, token |-> token, outcome |-> h.outcome,
                 trace |-> h.trace, token_info |-> h.token_info,
                 storage_error |-> storage_error]
     /\ successes' = Counted(h.validated)
     /\ ret' = [op |-> "handle_call_tool"]
     /\ UNCHANGED <<now, secret_key, issued, revoked, created_days, server,
                    REQUIRE_AUTH, cache>>

(***************************************************************************)
(* The dashboard (analytics_dashboard.py) and the manager it calls.  The    *)
(* rows of tokens are those of TokenDatabase (token_models.py).            *)
(* authenticate_token of the manager follows steps 1 to 8 of "Token        *)
(* Manager" in the specification of the subsystem.                         *)
(***************************************************************************)
\* "Bearer "
BEARER == <<"B", "e", "a", "r", "e", "r", " ">>

\* extract_token_from_header (token_security.py)
extract_token_from_header(authorization_header) ==
  IF authorization_header = <<>> THEN None
  ELSE IF ~StartsWith(authorization_header, BEARER) THEN None
  ELSE Some(SubSeq(authorization_header, Len(BEARER) + 1, Len(authorization_header)))

\* get_token_by_hash without the condition on is_active
get_token_by_hash_any_state(hashed_token) ==
  LET found == {i \in DOMAIN tokens : tokens[i].hashed_token = hashed_token}
  IN IF found = {} THEN None ELSE Some(tokens[CHOOSE i \in found : TRUE])

\* TokenDatabase.get_token_by_hash: WHERE hashed_token = ? AND is_active = 1
get_token_by_hash(hashed_token) ==
  LET found == {i \in DOMAIN tokens :
                  tokens[i].hashed_token = hashed_token /\ tokens[i].is_active}
  IN IF found = {} THEN None ELSE Some(tokens[CHOOSE i \in found : TRUE])

\* TokenDatabase.update_token_usage with increment_count
update_token_usage(tbl, token_id, last_used_at) ==
  [tbl EXCEPT ![token_id].last_used_at = Some(last_used_at),
              ![token_id].usage_count = @ + 1]

\* TokenDatabase.revoke_token: the UPDATE changes the row with the id, if any
TokenDatabase_revoke_token(tbl, token_id, revoked_by) ==
  [i \in DOMAIN tbl |->
     IF i = token_id
     THEN [tbl[i] EXCEPT !.is_active = FALSE, !.revoked_by = Some(revoked_by)]
     ELSE tbl[i]]

\* the tools a permission tier gives access to
tier_allows_tool(permissions, tool_name) ==
  permissions # "read_only" \/ tool_name \in read_only_tools

\* the (False, error, None) of authenticate_token; the tables are as they were
AuthError(error) ==
  [is_valid |-> FALSE, message |-> error, token_data |-> None,
   tokens |-> tokens, usage_windows |-> usage_windows]

\* TokenManager.authenticate_token as a function of the tables: the
\* (is_valid, message, token_data) it returns and the tables it leaves
authenticate_token(authorization_header, tool_name, ip_address) ==
  LET token == extract_token_from_header(authorization_header)
  IN IF token = None THEN AuthError("Malformed")
     ELSE IF ~verify_token_format(token[1]) THEN AuthError("Malformed")
     ELSE LET found == get_token_by_hash(hash_token(token[1]))
          IN IF found = None THEN AuthError("InvalidCredential")
             ELSE LET token_data == found[1]
                  IN IF ~token_data.is_active THEN AuthError("Revoked")
                     ELSE IF is_token_expired(token_data.expires_at)
                     THEN AuthError("Expired")
                     ELSE IF \/ ~tier_allows_tool(token_data.permissions, tool_name)
                             \/ ToolDenied(token_data, tool_name)
                     THEN AuthError("ToolNotPermitted")
                     ELSE IF IpDenied(token_data, ip_address)
                     THEN AuthError("IpNotWhitelisted")
                     ELSE LET r == is_rate_limited(token_data.id, token_data.rate_limit, 1)
                          IN IF r.result
                             THEN [AuthError("RateLimited") EXCEPT
                                     !.usage_windows = r.usage_windows]
                             ELSE [is_valid |-> TRUE, message |-> "Authenticated",
                                   token_data |-> found,
                                   tokens |-> update_token_usage(tokens, token_data.id, now),
                                   usage_windows |-> r.usage_windows]

\* TokenManager.revoke_token(identifier, revoked_by, reason): (success,
\* message) and the table it leaves; revoking a revoked token succeeds
manager_revoke_token(tbl, identifier, revoked_by) ==
  IF identifier \notin DOMAIN tbl
  THEN [success |-> FALSE, tokens |-> tbl]
  ELSE [success |-> TRUE, tokens |-> TokenDatabase_revoke_token(tbl, identifier, revoked_by)]

\* the characters that fill the secrets generate_token returns, and the ids
\* generate_token_id returns, in the order they are drawn
GeneratedChars == <<"a", "Z", "7", "b", "Y">>
GeneratedIds == <<"t1", "t2", "t3", "t4", "t5">>

\* TokenSecurity.create_token_with_metadata, at its k-th call
create_token_with_metadata(k) ==
  LET raw_token == TOKEN_PREFIX \o [j \in 1..TOKEN_LENGTH |-> GeneratedChars[k]]
  IN [token_id |-> GeneratedIds[k], raw_token |-> raw_token,
      hashed_token |-> hash_token(raw_token)]

\* TokenDatabase.create_token: the INSERT
TokenDatabase_create_token(tbl, token) == Extend(tbl, token.id, token)

\* the row of the replacement of a token: its settings, a new id and hash
Replacement(original, created) ==
  [original EXCEPT !.id = created.token_id, !.hashed_token = created.hashed_token,
                   !.is_active = TRUE, !.usage_count = 0, !.last_used_at = None,
                   !.revoked_by = None]

\* rotate_token that creates the replacement and leaves the original active
rotate_token_keep_original(identifier, revoked_by) ==
  IF identifier \notin DOMAIN tokens \/ ~tokens[identifier].is_active
  THEN [result |-> <<FALSE, "Token not found", None>>, token_id |-> None,
        tokens |-> tokens]
  ELSE LET created == create_token_with_metadata(Cardinality(DOMAIN tokens) + 1)
           token == Replacement(tokens[identifier], created)
       IN [result |-> <<TRUE, "Token rotated", Some(created.raw_token)>>,
           token_id |-> Some(created.token_id),
           tokens |-> TokenDatabase_create_token(tokens, token)]

\* TokenManager.rotate_token(identifier, revoked_by): (success, message,
\* new_token) and the table it leaves; the replacement is inserted and the
\* original revoked in one transaction
rotate_token(identifier, revoked_by) ==
  IF identifier \notin DOMAIN tokens \/ ~tokens[identifier].is_active
  THEN [result |-> <<FALSE, "Token not found", None>>, token_id |-> None,
        tokens |-> tokens]
  ELSE LET created == create_token_with_metadata(Cardinality(DOMAIN tokens) + 1)
           token == Replacement(tokens[identifier], created)
       IN [result |-> <<TRUE, "Token rotated", Some(created.raw_token)>>,
           token_id |-> Some(created.token_id),
           tokens |-> TokenDatabase_revoke_token(
                        TokenDatabase_create_token(tokens, token), identifier,
                        revoked_by)]

\* TokenCLI.rotate_token: a call of the manager's rotate_token
RotateToken(identifier, revoked_by) ==
  \E r \in {rotate_token(identifier, revoked_by)} :
     /\ Cardinality(DOMAIN tokens) <= MaxRotations
     /\ tokens' = r.tokens
     /\ issued' = IF r.result[1] THEN Extend(issued, r.result[3][1], r.token_id[1])
                  ELSE issued
     /\ ret' = [op |-> "rotate_token", identifier |-> identifier, result |-> r.result]
     /\ UNCHANGED <<now, secret_key, token_usage, successes, revoked, created_days,
                    rlVars, srvVars>>

\* a request with the secret in its Authorization header is authenticated
AuthenticateToken(token, tool_name) ==
  \E r \in {authenticate_token(BEARER \o token, tool_name, None)} :
     /\ tokens' = r.tokens
     /\ usage_windows' = r.usage_windows
     /\ ret' = [op |-> "authenticate_token", token |-> token, is_valid |-> r.is_valid,
                message |-> r.message]
     /\ UNCHANGED <<now, secret_key, token_usage, issued, successes, revoked,
                    created_days, rl_args, rl_log, rl_calls, srvVars>>

\* what the dependency of an endpoint leaves: the status of the
\* HTTPException (200 when it returned), its detail, the token it returned
Gate(status_code, detail, auth) ==
  [status_code |-> status_code, detail |-> detail, token_data |-> auth.token_data,
   tokens |-> auth.tokens, usage_windows |-> auth.usage_windows]

\* verify_admin_token without the comparison with TokenPermission.ADMIN
verify_admin_token_any_tier(auth_header, client_host) ==
  IF auth_header = None \/ auth_header[1] = <<>>
  THEN Gate(401, "Missing authorization header", AuthError("none"))
  ELSE LET auth == authenticate_token(auth_header[1], "dashboard", client_host)
       IN IF ~auth.is_valid THEN Gate(401, auth.message, auth)
          ELSE Gate(200, auth.message, auth)

\* DashboardAuth.verify_admin_token
verify_admin_token(auth_header, client_host) ==
  IF auth_header = None \/ auth_header[1] = <<>>
  THEN Gate(401, "Missing authorization header", AuthError("none"))
  ELSE LET auth == authenticate_token(auth_header[1], "dashboard", client_host)
       IN IF ~auth.is_valid THEN Gate(401, auth.message, auth)
          ELSE IF auth.token_data[1].permissions # "admin"
          THEN Gate(403, "Admin access required", auth)
          ELSE Gate(200, auth.message, auth)

\* the routes of dashboard_app that depend on verify_admin_token
ApiEndpoints ==
  {"/api/overview", "/api/tokens", "/api/tokens/{token_id}", "/api/analytics",
   "/api/security", "/api/tokens/{token_id}/revoke"}

\* the routes that have a token_id in their path
TokenEndpoints == {"/api/tokens/{token_id}", "/api/tokens/{token_id}/revoke"}

\* the handler of an endpoint: its status and the table it leaves
Handler(endpoint, token_id, auth_data, tbl) ==
  IF endpoint = "/api/tokens/{token_id}/revoke"
  THEN LET r == manager_revoke_token(tbl, token_id, "dashboard-" \o auth_data.name)
       IN [status_code |-> IF r.success THEN 200 ELSE 400, tokens |-> r.tokens]
  ELSE IF endpoint = "/api/tokens/{token_id}" /\ token_id \notin DOMAIN tbl
  THEN [status_code |-> 404, tokens |-> tbl]
  ELSE [status_code |-> 200, tokens |-> tbl]

\* a request to an endpoint of the dashboard: the dependency, then the
\* handler when the dependency returned
DashboardRequest(endpoint, token_id, auth_header, client_host) ==
  \E gate \in {verify_admin_token(auth_header, client_host)} :
     LET request == [outcome |-> "responded", endpoint |-> endpoint,
                     token_id |-> token_id, auth_header |-> auth_header,
                     client_host |-> client_host, detail |-> gate.detail,
                     before |-> tokens]
     IN
     /\ usage_windows' = gate.usage_windows
     /\ IF gate.status_code # 200
        THEN /\ tokens' = gate.tokens
             /\ call' = request @@ [status_code |-> gate.status_code, handler |-> None]
        ELSE LET h == Handler(endpoint, token_id, gate.token_data[1], gate.tokens)
             IN /\ tokens' = h.tokens
                /\ call' = request @@
                           [status_code |-> h.status_code, handler |-> Some(endpoint)]
     /\ ret' = [op |-> "dashboard"]
     /\ UNCHANGED <<now, secret_key, token_usage, issued, successes, revoked,
                    created_days, rl_args, rl_log, rl_calls, server, REQUIRE_AUTH, cache,
                    current_token_info>>

(***************************************************************************)
(* TokenDatabase (token_models.py): the metadata of a token on its way to  *)
(* the tokens table and back.  A JSON text is the sequence of its lexical  *)
(* tokens.                                                                 *)
(***************************************************************************)
JsonPunctuation == {"[", "]", ",", "quote"}

\* json.dumps of a list of strings
RECURSIVE JsonItems(_, _)
JsonItems(list, k) ==
  IF k > Len(list) THEN <<>>
  ELSE (IF k > 1 THEN <<",">> ELSE <<>>) \o <<"quote", list[k], "quote">>
         \o JsonItems(list, k + 1)

json_dumps(list) == <<"[">> \o JsonItems(list, 1) \o <<"]">>

\* json.loads of the text of a list of strings
json_loads(text) ==
  LET IsString(lexeme) == lexeme \notin JsonPunctuation
  IN SelectSeq(text, IsString)

\* `x if x else None` on an Optional list or text: None and the empty one are falsy
Falsy(opt) == opt = None \/ opt[1] = <<>>

\* TokenDatabase._serialize_metadata: the columns allowed_tools and ip_whitelist
_serialize_metadata(metadata) ==
  [metadata EXCEPT
     !.allowed_tools = IF Falsy(@) THEN None ELSE Some(json_dumps(@[1])),
     !.ip_whitelist = IF Falsy(@) THEN None ELSE Some(json_dumps(@[1]))]

\* TokenDatabase._deserialize_metadata
_deserialize_metadata(row) ==
  [row EXCEPT
     !.allowed_tools = IF Falsy(@) THEN None ELSE Some(json_loads(@[1])),
     !.ip_whitelist = IF Falsy(@) THEN None ELSE Some(json_loads(@[1]))]

\* TokenDatabase.get_token_by_id: SELECT * FROM tokens WHERE id = ?
get_token_by_id(token_id) ==
  IF token_id \in DOMAIN tokens THEN Some(tokens[token_id]) ELSE None

\* a token is created with the metadata and stored
StoreToken ==
  /\ call.outcome = "input"
  /\ LET created == create_token_with_metadata(1)
         token == _serialize_metadata(
                    [id |-> created.token_id, name |-> "name",
                     hashed_token |-> created.hashed_token, is_active |-> TRUE,
                     permissions |-> call.permissions, expires_at |-> None,
                     allowed_tools |-> call.allowed_tools, ip_whitelist |-> None,
                     rate_limit |-> call.rate_limit, usage_count |-> 0,
                     last_used_at |-> None, revoked_by |-> None])
     IN /\ tokens' = TokenDatabase_create_token(tokens, token)
        /\ call' = [call EXCEPT !.outcome = "stored", !.token = created.raw_token,
                                !.token_id = created.token_id]
  /\ UNCHANGED <<now, secret_key, token_usage, ret, issued, successes, revoked,
                 created_days, rlVars, server, REQUIRE_AUTH, cache, current_token_info>>

\* the token is read back, by its hash or by its id
ReadToken ==
  /\ call.outcome = "stored"
  /\ LET found == IF call.lookup = "get_token_by_hash"
                  THEN get_token_by_hash(hash_token(call.token))
                  ELSE get_token_by_id(call.token_id)
     IN call' = [call EXCEPT !.outcome = "read",
                             !.token_data = _deserialize_metadata(found[1])]
  /\ UNCHANGED <<tmVars, rlVars, server, REQUIRE_AUTH, cache, current_token_info>>

\* validate_token_request on the token that was read back
ValidateReadToken ==
  /\ call.outcome = "read"
  /\ \E r \in {validate_token_request(call.token, call.token_data, call.tool_name, None)} :
       /\ usage_windows' = r.usage_windows
       /\ call' = [call EXCEPT !.outcome = "validated", !.result = r.result]
  /\ UNCHANGED <<tmVars, rl_args, rl_log, rl_calls, server, REQUIRE_AUTH, cache,
                 current_token_info>>

(***************************************************************************)
(* TokenDatabase (token_models.py): the calls on the tokens table.  A row  *)
(* carries the columns these calls read or write; the other columns are    *)
(* written by the INSERT only.                                             *)
(***************************************************************************)
\* INSERT INTO tokens raises sqlite3.IntegrityError: id is PRIMARY KEY and
\* hashed_token is UNIQUE
IntegrityError(tbl, token) ==
  \/ token.id \in DOMAIN tbl
  \/ \E i \in DOMAIN tbl : tbl[i].hashed_token = token.hashed_token

\* TokenDatabase.create_token: True, or False when the INSERT raised
create_token_row(tbl, token) ==
  IF IntegrityError(tbl, token)
  THEN [result |-> FALSE, tokens |-> tbl]
  ELSE [result |-> TRUE, tokens |-> TokenDatabase_create_token(tbl, token)]

\* TokenDatabase.revoke_token with its four columns: UPDATE ... WHERE id = ?,
\* and True unless the statement raised
revoke_token_row(tbl, token_id, revoked_by, reason) ==
  LET updated == TokenDatabase_revoke_token(tbl, token_id, revoked_by)
  IN [result |-> TRUE,
      tokens |-> [i \in DOMAIN updated |->
                    IF i = token_id
                    THEN [updated[i] EXCEPT !.revoked_at = Some(now),
                                            !.revoked_reason = Some(reason)]
                    ELSE updated[i]]]

\* TokenDatabase.list_tokens: the lists the SELECT can return
TokenDatabase_list_tokens(include_inactive) ==
  LET ids == {i \in DOMAIN tokens : ~include_inactive => tokens[i].is_active}
  IN {[k \in 1..Cardinality(ids) |-> tokens[s[k]]] : s \in OrderedByCreatedDesc(ids)}

\* TokenDatabase.create_token is called; issued keeps the id each hash was
\* stored under
DbCreateToken(token) ==
  LET r == create_token_row(tokens, token)
  IN /\ tokens' = r.tokens
     /\ ret' = [op |-> "create_token", token |-> token, result |-> r.result,
                duplicate |-> \E i \in DOMAIN tokens :
                                tokens[i].hashed_token = token.hashed_token]
     /\ issued' = IF r.result THEN Extend(issued, token.hashed_token, token.id)
                  ELSE issued
     /\ UNCHANGED <<now, secret_key, token_usage, successes, revoked, created_days>>

\* TokenDatabase.revoke_token is called; revoked keeps what the first
\* revocation of a token wrote
DbRevokeToken(token_id, revoked_by, reason) ==
  LET r == revoke_token_row(tokens, token_id, revoked_by, reason)
      first == token_id \in DOMAIN tokens /\ tokens[token_id].is_active
  IN /\ tokens' = r.tokens
     /\ ret' = [op |-> "revoke_token", token_id |-> token_id, result |-> r.result,
                again |-> token_id \in DOMAIN revoked]
     /\ revoked' = IF first
                   THEN Extend(revoked, token_id,
                               [revoked_at |-> Some(now),
                                revoked_by |-> Some(revoked_by),
                                revoked_reason |-> Some(reason)])
                   ELSE revoked
     /\ UNCHANGED <<now, secret_key, token_usage, issued, successes, created_days>>

\* one of the three reads of the tokens table is called
DbRead(op, arg) ==
  /\ \E result \in CASE op = "get_token_by_hash" -> {get_token_by_hash(hash_token(arg))}
                     [] op = "get_token_by_id" -> {get_token_by_id(arg)}
                     [] op = "list_tokens" -> TokenDatabase_list_tokens(arg) :
       ret' = [op |-> op, arg |-> arg, result |-> result]
  /\ UNCHANGED <<now, secret_key, tokens, token_usage, issued, successes, revoked,
                 created_days>>

(***************************************************************************)
(* TokenDatabase (token_models.py): the calls on the token_usage table.    *)
(* An event carries the columns these calls read.                          *)
(***************************************************************************)
\* the events of a token at or after since, and those of any token
EventsOfToken(usage, token_id, since) ==
  {k \in DOMAIN usage : usage[k].token_id = token_id /\ usage[k].timestamp >= since}

EventsOfAnyToken(usage, token_id, since) ==
  {k \in DOMAIN usage : usage[k].timestamp >= since}

\* Python's `x or d` for a number x that may be None
OrDefault(x, d) == IF x = None \/ x[1] = 0 THEN d ELSE x[1]

\* the larger of two numbers
max(a, b) == IF a >= b THEN a ELSE b

\* get_usage_stats with no condition on token_id in its two SELECTs
get_usage_stats_any_token(usage, token_id, hours) ==
  LET since == now - hours * HOUR
      rows == EventsOfAnyToken(usage, token_id, since)
      total_requests == Some(Cardinality(rows))
      successful_requests ==
        IF rows = {} THEN None ELSE Some(Cardinality({k \in rows : usage[k].success}))
  IN [period_hours |-> hours,
      total_requests |-> OrDefault(total_requests, 0),
      successful_requests |-> OrDefault(successful_requests, 0),
      error_rate |-> <<total_requests[1] - OrDefault(successful_requests, 0),
                       max(OrDefault(total_requests, 1), 1)>>,
      tools_usage |-> [t \in {usage[k].tool_name : k \in rows} |->
                         Cardinality({k \in rows : usage[k].tool_name = t})]]

\* TokenDatabase.get_usage_stats: COUNT(*) and SUM(...) over the events of
\* the token since now - hours (SUM is NULL when there is none), the counts
\* GROUP BY tool_name, and error_rate as the fraction <<numerator, denominator>>
get_usage_stats(usage, token_id, hours) ==
  LET since == now - hours * HOUR
      rows == EventsOfToken(usage, token_id, since)
      total_requests == Some(Cardinality(rows))
      successful_requests ==
        IF rows = {} THEN None ELSE Some(Cardinality({k \in rows : usage[k].success}))
  IN [period_hours |-> hours,
      total_requests |-> OrDefault(total_requests, 0),
      successful_requests |-> OrDefault(successful_requests, 0),
      error_rate |-> <<total_requests[1] - OrDefault(successful_requests, 0),
                       max(OrDefault(total_requests, 1), 1)>>,
      tools_usage |-> [t \in {usage[k].tool_name : k \in rows} |->
                         Cardinality({k \in rows : usage[k].tool_name = t})]]

\* TokenDatabase.log_usage: the INSERT of an event
log_usage(usage, event) == Append(usage, event)

\* TokenDatabase.cleanup_old_usage: DELETE ... WHERE timestamp < cutoff
cleanup_old_usage(usage, days) ==
  LET cutoff == now - days * DAY
      Newer(event) == ~(event.timestamp < cutoff)
  IN SelectSeq(usage, Newer)

\* log_usage is called with an event of the current clock reading
LogUsage(token_id, tool_name, success) ==
  /\ Len(token_usage) < MaxEvents
  /\ token_usage' = log_usage(token_usage,
                              [token_id |-> token_id, timestamp |-> now,
                               tool_name |-> tool_name, success |-> success])
  /\ ret' = [op |-> "log_usage", result |-> TRUE]
  /\ UNCHANGED <<now, secret_key, tokens, issued, successes, revoked, created_days>>

\* get_usage_stats is called
GetUsageStats(token_id, hours) ==
  /\ ret' = [op |-> "get_usage_stats", token_id |-> token_id, hours |-> hours,
             result |-> get_usage_stats(token_usage, token_id, hours)]
  /\ UNCHANGED <<now, secret_key, tokens, token_usage, issued, successes, revoked,
                 created_days>>

\* cleanup_old_usage is called
CleanupOldUsage(days) ==
  /\ token_usage' = cleanup_old_usage(token_usage, days)
  /\ ret' = [op |-> "cleanup_old_usage", days |-> days, result |-> TRUE,
             deleted_count |-> Len(token_usage) - Len(cleanup_old_usage(token_usage, days))]
  /\ UNCHANGED <<now, secret_key, tokens, issued, successes, revoked, created_days>>

(***************************************************************************)
(* make_congress_request and make_govinfo_request (server.py): the retry   *)
(* loop over the answers of the API.                                       *)
(***************************************************************************)
\* client.get raised instead of returning a response
ConnectError == [raised |-> "httpx.ConnectError"]

\* a response: its status, its Retry-After header, and whether
\* response.json() parses its body
Response(status_code, retry_after, parses) ==
  [raised |-> "", status_code |-> status_code, retry_after |-> retry_after,
   parses |-> parses]

\* `except Exception`: sleep and go on while attempts are left, else raise
OnException(attempt, max_retries) ==
  IF attempt < max_retries - 1 THEN "next" ELSE "raise"

\* `except httpx.HTTPStatusError`: 429 sleeps and goes on at every
\* attempt, a status of 500 or more while attempts are left, else raise
OnHTTPStatusError(status_code, attempt, max_retries) ==
  IF status_code = 429 THEN "next"
  ELSE IF status_code >= 500 /\ attempt < max_retries - 1 THEN "next"
  ELSE "raise"

\* one iteration of the loop of make_congress_request: "return" the parsed
\* JSON, "raise", or go on to the "next" iteration
congress_attempt(response, attempt, max_retries) ==
  IF response.raised # "" THEN OnException(attempt, max_retries)
  ELSE IF response.status_code >= 400
       THEN OnHTTPStatusError(response.status_code, attempt, max_retries)
       ELSE IF response.parses THEN "return"
            ELSE OnException(attempt, max_retries)

\* one iteration of the loop of make_govinfo_request: 503 with a
\* Retry-After header sleeps and continues, after int() of the header
govinfo_attempt(response, attempt, max_retries) ==
  IF response.raised = "" /\ response.status_code = 503
       /\ response.retry_after # None
  THEN IF response.retry_after[1] = "http-date"
       THEN OnException(attempt, max_retries)
       ELSE "next"
  ELSE congress_attempt(response, attempt, max_retries)

\* the request is made: the API key and the cache are looked at, and the
\* loop runs when max_retries is positive
MakeRequest(api, key, cached, max_retries) ==
  /\ call.pc = "done"
  /\ call' = IF ~key
             THEN [api |-> api, max_retries |-> max_retries, attempt |-> 0,
                   pc |-> "done", outcome |-> "raised", log |-> <<>>]
             ELSE IF cached
                  THEN [api |-> api, max_retries |-> max_retries, attempt |-> 0,
                        pc |-> "done", outcome |-> "returned", log |-> <<>>]
                  ELSE IF max_retries = 0
                       THEN [api |-> api, max_retries |-> max_retries, attempt |-> 0,
                             pc |-> "done", outcome |-> "none", log |-> <<>>]
                       ELSE [api |-> api, max_retries |-> max_retries, attempt |-> 0,
                             pc |-> "loop", outcome |-> "pending", log |-> <<>>]
  /\ UNCHANGED <<tmVars, server, REQUIRE_AUTH, cache, current_token_info>>

\* the API answers the request of the current iteration; after the last
\* iteration the function ends without a return statement
Attempt(response) ==
  /\ call.pc = "loop"
  /\ LET step == IF call.api = "congress"
                 THEN congress_attempt(response, call.attempt, call.max_retries)
                 ELSE govinfo_attempt(response, call.attempt, call.max_retries)
         log == Append(call.log, response)
     IN call' = CASE step = "return" ->
                       [call EXCEPT !.pc = "done", !.outcome = "returned", !.log = log]
                  [] step = "raise" ->
                       [call EXCEPT !.pc = "done", !.outcome = "raised", !.log = log]
                  [] step = "next" /\ call.attempt + 1 < call.max_retries ->
                       [call EXCEPT !.attempt = @ + 1, !.log = log]
                  [] OTHER ->
                       [call EXCEPT !.pc = "done", !.outcome = "none",
                                    !.attempt = @ + 1, !.log = log]
  /\ UNCHANGED <<tmVars, server, REQUIRE_AUTH, cache, current_token_info>>

(***************************************************************************)
(* Initial state: a fresh database and process.                            *)
(***************************************************************************)
\* state of a fresh database and process
FreshDatabase ==
  /\ now = 0
  /\ tokens = <<>>
  /\ token_usage = <<>>
  /\ ret = [op |-> "none"]
  /\ issued = <<>>
  /\ successes = <<>>
  /\ revoked = {}
  /\ created_days = <<>>

\* the environment of the process sets TOKEN_SECRET_KEY
EnvSet ==
  /\ TOKEN_SECRET_KEY = Some("key")
  /\ restarts = 0

TMInit ==
  /\ FreshDatabase
  /\ EnvSet
  /\ secret_key \in SECRET_KEY

RLIdle ==
  /\ usage_windows = <<>>
  /\ rl_args = <<>>
  /\ rl_log = <<>>
  /\ rl_calls = <<>>

SrvIdle ==
  /\ server = "none"
  /\ REQUIRE_AUTH = TRUE
  /\ cache = <<>>
  /\ call = [outcome |-> "none"]
  /\ current_token_info = None

ConcIdle ==
  /\ conns = <<>>
  /\ db_lock = None

Init == TMInit /\ RLIdle /\ SrvIdle /\ ConcIdle

(***************************************************************************)
(* Spec: tokens are created, validated, revoked and swept while the clock  *)
(* advances.                                                               *)
(***************************************************************************)
ExpiresDaysInputs == {None, Some(0), Some(1)}
TokenInputs == Secrets \cup {"invalid_token_12345"}
NotTM == UNCHANGED <<rlVars, srvVars, concVars, TOKEN_SECRET_KEY, restarts>>

CreateToken ==
  /\ \E d \in ExpiresDaysInputs : create_token("name", "standard", d)
  /\ NotTM

Validate ==
  /\ \E t \in TokenInputs : ValidateToken(t)
  /\ NotTM

Revoke ==
  /\ \E i \in TokenIds : revoke_token(i)
  /\ NotTM

Cleanup ==
  /\ cleanup_expired
  /\ NotTM

ClockDay ==
  /\ Tick(DAY, MaxDays * DAY)
  /\ NotTM

Next ==
  \/ CreateToken
  \/ Validate
  \/ Revoke
  \/ Cleanup
  \/ ClockDay

Spec == Init /\ [][Next]_vars

(***************************************************************************)
(* SpecRestart: tokens that never expire are created and validated, and    *)
(* the process is restarted, with TOKEN_SECRET_KEY set or not set.         *)
(***************************************************************************)
InitRestart ==
  /\ FreshDatabase
  /\ TOKEN_SECRET_KEY \in {None, Some("key")}
  /\ restarts = 0
  /\ secret_key \in SECRET_KEY
  /\ RLIdle /\ SrvIdle /\ ConcIdle

CreateTokenForever ==
  /\ create_token("name", "standard", None)
  /\ NotTM

RestartProcess ==
  /\ Restart
  /\ UNCHANGED <<rlVars, srvVars, concVars>>

NextRestart ==
  \/ CreateTokenForever
  \/ Validate
  \/ RestartProcess

SpecRestart == InitRestart /\ [][NextRestart]_vars

(***************************************************************************)
(* SpecFormat: verify_token_format applied to the secrets the two issuers  *)
(* return and to texts that are not secrets.                               *)
(***************************************************************************)
OtherTexts ==
  {<<>>, <<"e", "n", "a", "c", "t">>, TOKEN_PREFIX,
   <<"t", "o", "k", "e", "n", "_">> \o [k \in 1..TOKEN_LENGTH |-> "a"]}

FormatInputs ==
  ({"generate_token"} \X generate_token)
    \cup ({"create_token"} \X create_token_secrets)
    \cup ({"caller"} \X OtherTexts)

InitFormat ==
  /\ TMInit /\ RLIdle /\ ConcIdle
  /\ server = "none"
  /\ REQUIRE_AUTH = TRUE
  /\ cache = <<>>
  /\ current_token_info = None
  /\ \E in \in FormatInputs :
       call = [outcome |-> "input", issuer |-> in[1], token |-> in[2], ok |-> FALSE]

VerifyFormat ==
  /\ VerifyTokenFormat
  /\ UNCHANGED <<rlVars, concVars, envVars>>

NextFormat ==
  \/ VerifyFormat

SpecFormat == InitFormat /\ [][NextFormat]_vars

(***************************************************************************)
(* SpecIP: is_ip_in_whitelist applied to an address and a whitelist of at  *)
(* most two entries.                                                       *)
(***************************************************************************)
Exact(text) == [text |-> text, prefix |-> None]
Cidr(text, prefix) == [text |-> text, prefix |-> Some(prefix)]

AddressInputs ==
  {<<10, 0, 0, 5>>, <<10, 0, 1, 5>>, <<10, 0, 0, 255>>, <<192, 168, 1, 1>>,
   <<10, 0, 0>>, <<10, 0, 0, 256>>, <<>>}

EntryInputs ==
  {Exact(<<10, 0, 0, 5>>), Exact(<<192, 168, 1, 1>>), Exact(<<10, 0, 0>>),
   Cidr(<<10, 0, 0, 0>>, 24), Cidr(<<10, 0, 0, 5>>, 24), Cidr(<<10, 0, 0, 4>>, 31),
   Cidr(<<10, 0, 0, 0>>, 33), Cidr(<<0, 0, 0, 0>>, 0)}

WhitelistInputs ==
  {None, Some(<<>>)}
    \cup {Some(<<e>>) : e \in EntryInputs}
    \cup {Some(<<e, f>>) : e \in EntryInputs, f \in EntryInputs}

InitIP ==
  /\ TMInit /\ RLIdle /\ ConcIdle
  /\ server = "none"
  /\ REQUIRE_AUTH = TRUE
  /\ cache = <<>>
  /\ current_token_info = None
  /\ \E a \in AddressInputs, w \in WhitelistInputs :
       call = [outcome |-> "input", ip_address |-> a, whitelist |-> w, ok |-> FALSE]

CheckIP ==
  /\ IsIpInWhitelist
  /\ UNCHANGED <<rlVars, concVars, envVars>>

NextIP ==
  \/ CheckIP

SpecIP == InitIP /\ [][NextIP]_vars

(***************************************************************************)
(* SpecGate: validate_token_request called, one call at a time, with a     *)
(* text, the data of a token, a tool and an address, while the clock       *)
(* advances.                                                               *)
(***************************************************************************)
GateSecret == TOKEN_PREFIX \o [k \in 1..TOKEN_LENGTH |-> "a"]
GateTexts == {GateSecret, TOKEN_PREFIX}
GateTools == {"search_bills", "get_votes"}
GateNetwork == Cidr(<<10, 0, 0, 0>>, 24)
GateAddresses == {None, Some(<<10, 0, 0, 5>>), Some(<<10, 0, 1, 5>>)}
GateTokenData ==
  [id : {"id1"},
   is_active : BOOLEAN,
   expires_at : {None, Some(1)},
   allowed_tools : {None, Some(<<"search_bills">>)},
   ip_whitelist : {Some(<<GateNetwork>>)},
   rate_limit : {1, MaxLimit}]

InitGate == TMInit /\ RLIdle /\ SrvIdle /\ ConcIdle

Request ==
  /\ \E token \in GateTexts, token_data \in GateTokenData, tool_name \in GateTools,
        ip_address \in GateAddresses :
       ValidateTokenRequest(token, token_data, tool_name, ip_address)
  /\ UNCHANGED <<concVars, envVars>>

\* the clock advances between two calls
ClockGate ==
  /\ Tick(1, MaxTime)
  /\ call' = [outcome |-> "none"]
  /\ UNCHANGED <<rlVars, server, REQUIRE_AUTH, cache, current_token_info, concVars,
                 envVars>>

NextGate ==
  \/ Request
  \/ ClockGate

SpecGate == InitGate /\ [][NextGate]_vars

(***************************************************************************)
(* SpecDash: requests to the endpoints of the dashboard on a database that *)
(* holds an admin token and the token of a user, while the clock advances. *)
(***************************************************************************)
AdminSecret == TOKEN_PREFIX \o [k \in 1..TOKEN_LENGTH |-> "a"]
UserSecret == TOKEN_PREFIX \o [k \in 1..TOKEN_LENGTH |-> "Z"]
UnknownSecret == TOKEN_PREFIX \o [k \in 1..TOKEN_LENGTH |-> "7"]

\* the row of a token as TokenDatabase.create_token stores it
DashRow(token_id, secret, permissions) ==
  [id |-> token_id, name |-> token_id, hashed_token |-> hash_token(secret),
   is_active |-> TRUE, permissions |-> permissions, expires_at |-> None,
   allowed_tools |-> None, ip_whitelist |-> None, rate_limit |-> 1,
   usage_count |-> 0, last_used_at |-> None, revoked_by |-> None]

\* the tokens a user can hold: unrestricted but for the rate limit, or with
\* one more restriction
UserRows ==
  LET row == DashRow("usr", UserSecret, "standard")
  IN {row,
      [row EXCEPT !.permissions = "read_only"],
      [row EXCEPT !.allowed_tools = Some(<<"search_bills">>)],
      [row EXCEPT !.ip_whitelist = Some(<<GateNetwork>>)],
      [row EXCEPT !.expires_at = Some(0)]}

DashHeaders ==
  {None, Some(BEARER \o AdminSecret), Some(BEARER \o UserSecret),
   Some(BEARER \o UnknownSecret), Some(BEARER \o TOKEN_PREFIX), Some(UserSecret)}

DashHosts == {Some(<<10, 0, 0, 5>>), Some(<<10, 0, 1, 5>>)}

InitDash ==
  /\ EnvSet
  /\ secret_key \in SECRET_KEY
  /\ now = 0
  /\ \E user \in UserRows :
       tokens = [i \in {"adm", "usr"} |->
                  IF i = "adm" THEN DashRow("adm", AdminSecret, "admin") ELSE user]
  /\ token_usage = <<>>
  /\ ret = [op |-> "none"]
  /\ issued = <<>>
  /\ successes = <<>>
  /\ revoked = {}
  /\ created_days = <<>>
  /\ RLIdle /\ SrvIdle /\ ConcIdle

Dashboard ==
  /\ \E endpoint \in ApiEndpoints, auth_header \in DashHeaders, client_host \in DashHosts :
       \E token_id \in IF endpoint \in TokenEndpoints THEN {"adm", "usr"} ELSE {""} :
         DashboardRequest(endpoint, token_id, auth_header, client_host)
  /\ UNCHANGED <<concVars, envVars>>

\* the clock advances between two requests
ClockDash ==
  /\ Tick(1, MaxSrvTime)
  /\ call' = [outcome |-> "none"]
  /\ UNCHANGED <<rlVars, server, REQUIRE_AUTH, cache, current_token_info, concVars,
                 envVars>>

NextDash ==
  \/ Dashboard
  \/ ClockDash

SpecDash == InitDash /\ [][NextDash]_vars

(***************************************************************************)
(* SpecRotate: a token is rotated, and its replacements are, while         *)
(* requests authenticate with the secrets that were issued and the clock   *)
(* advances.                                                               *)
(***************************************************************************)
InitRotate ==
  /\ EnvSet
  /\ secret_key \in SECRET_KEY
  /\ now = 0
  /\ \E permissions \in {"read_only", "standard", "admin"} :
       LET created == create_token_with_metadata(1)
       IN /\ tokens = [i \in {created.token_id} |->
                         DashRow(created.token_id, created.raw_token, permissions)]
          /\ issued = [t \in {created.raw_token} |-> created.token_id]
  /\ token_usage = <<>>
  /\ ret = [op |-> "none"]
  /\ successes = <<>>
  /\ revoked = {}
  /\ created_days = <<>>
  /\ RLIdle /\ SrvIdle /\ ConcIdle

Rotate ==
  /\ \E identifier \in DOMAIN tokens \cup {"nobody"} : RotateToken(identifier, "cli")
  /\ UNCHANGED <<concVars, envVars>>

Authenticate ==
  /\ \E token \in DOMAIN issued, tool_name \in GateTools :
       AuthenticateToken(token, tool_name)
  /\ UNCHANGED <<concVars, envVars>>

ClockRotate ==
  /\ Tick(1, MaxSrvTime)
  /\ UNCHANGED <<rlVars, srvVars, concVars, envVars>>

NextRotate ==
  \/ Rotate
  \/ Authenticate
  \/ ClockRotate

SpecRotate == InitRotate /\ [][NextRotate]_vars

(***************************************************************************)
(* SpecMeta: a token is created with an allowed_tools list, stored, read   *)
(* back and used for a tool.                                               *)
(***************************************************************************)
AllowedToolsInputs ==
  {None, Some(<<>>), Some(<<"search_bills">>), Some(<<"search_bills", "get_bill">>)}

MetaTools == {"search_bills", "get_bill", "get_votes"}

InitMeta ==
  /\ TMInit /\ RLIdle /\ ConcIdle
  /\ server = "none"
  /\ REQUIRE_AUTH = TRUE
  /\ cache = <<>>
  /\ current_token_info = None
  /\ \E allowed_tools \in AllowedToolsInputs, tool_name \in MetaTools,
        permissions \in {"read_only", "standard", "admin"}, rate_limit \in 1..MaxLimit,
        lookup \in {"get_token_by_hash", "get_token_by_id"} :
       call = [outcome |-> "input", allowed_tools |-> allowed_tools,
               tool_name |-> tool_name, permissions |-> permissions,
               rate_limit |-> rate_limit, lookup |-> lookup, token |-> <<>>,
               token_id |-> "", token_data |-> None, result |-> <<FALSE, "">>]

StoreMeta ==
  /\ StoreToken
  /\ UNCHANGED <<concVars, envVars>>

ReadMeta ==
  /\ ReadToken
  /\ UNCHANGED <<concVars, envVars>>

ValidateMeta ==
  /\ ValidateReadToken
  /\ UNCHANGED <<concVars, envVars>>

NextMeta ==
  \/ StoreMeta
  \/ ReadMeta
  \/ ValidateMeta

SpecMeta == InitMeta /\ [][NextMeta]_vars

(***************************************************************************)
(* SpecDb: tokens are inserted into, revoked in and read from the tokens   *)
(* table of TokenDatabase while the clock advances.                        *)
(***************************************************************************)
DbIds == {"id1", "id2"}
DbSecrets == {"enact_a", "enact_b"}
DbRevocations == {<<"admin", "Manual revocation">>, <<"cli", "leaked">>}
NotDb == UNCHANGED <<rlVars, srvVars, concVars, envVars>>

\* the Token that is handed to create_token at the current clock reading
DbToken(token_id, secret) ==
  [id |-> token_id, name |-> "name", hashed_token |-> hash_token(secret),
   created_at |-> now, is_active |-> TRUE, revoked_at |-> None,
   revoked_by |-> None, revoked_reason |-> None]

InitDb ==
  /\ now = 0
  /\ secret_key = "key"
  /\ tokens = <<>>
  /\ token_usage = <<>>
  /\ ret = [op |-> "none"]
  /\ issued = <<>>
  /\ successes = <<>>
  /\ revoked = <<>>
  /\ created_days = <<>>
  /\ EnvSet
  /\ RLIdle /\ SrvIdle /\ ConcIdle

CreateDb ==
  /\ \E token_id \in DbIds, secret \in DbSecrets :
       DbCreateToken(DbToken(token_id, secret))
  /\ NotDb

RevokeDb ==
  /\ \E token_id \in DbIds, r \in DbRevocations : DbRevokeToken(token_id, r[1], r[2])
  /\ NotDb

GetByHashDb ==
  /\ \E secret \in DbSecrets : DbRead("get_token_by_hash", secret)
  /\ NotDb

GetByIdDb ==
  /\ \E token_id \in DbIds : DbRead("get_token_by_id", token_id)
  /\ NotDb

ListDb ==
  /\ \E include_inactive \in BOOLEAN : DbRead("list_tokens", include_inactive)
  /\ NotDb

ClockDb ==
  /\ Tick(1, MaxDbTime)
  /\ NotDb

NextDb ==
  \/ CreateDb
  \/ RevokeDb
  \/ GetByHashDb
  \/ GetByIdDb
  \/ ListDb
  \/ ClockDb

SpecDb == InitDb /\ [][NextDb]_vars

(***************************************************************************)
(* SpecStats: usage events are logged, aggregated and purged while the     *)
(* clock advances, on a usage table that starts empty or with the events   *)
(* of five successful and two failed calls of one token and of a call of   *)
(* another token.                                                          *)
(***************************************************************************)
StatsIds == {"id1", "id2"}
StatsTools == {"search_bills", "get_bill"}
StatsHours == {1, 24}
StatsDays == {0, 30}

\* the event of a call at the start of the clock
EventAtStart(token_id, tool_name, success) ==
  [token_id |-> token_id, timestamp |-> 0, tool_name |-> tool_name,
   success |-> success]

FiveSuccessesTwoFailures ==
  <<EventAtStart("id1", "search_bills", TRUE), EventAtStart("id1", "search_bills", TRUE),
    EventAtStart("id1", "search_bills", TRUE), EventAtStart("id1", "get_bill", TRUE),
    EventAtStart("id1", "get_bill", TRUE), EventAtStart("id1", "get_bill", FALSE),
    EventAtStart("id1", "search_bills", FALSE), EventAtStart("id2", "get_bill", TRUE)>>

InitStats ==
  /\ now = 0
  /\ secret_key = "key"
  /\ tokens = <<>>
  /\ token_usage \in {<<>>, FiveSuccessesTwoFailures}
  /\ ret = [op |-> "none"]
  /\ issued = <<>>
  /\ successes = <<>>
  /\ revoked = {}
  /\ created_days = <<>>
  /\ EnvSet
  /\ RLIdle /\ SrvIdle /\ ConcIdle

LogStats ==
  /\ \E token_id \in StatsIds, tool_name \in StatsTools, success \in BOOLEAN :
       LogUsage(token_id, tool_name, success)
  /\ NotDb

UsageStats ==
  /\ \E token_id \in StatsIds, hours \in StatsHours : GetUsageStats(token_id, hours)
  /\ NotDb

PurgeStats ==
  /\ \E days \in StatsDays : CleanupOldUsage(days)
  /\ NotDb

ClockStats ==
  /\ Tick(1, MaxStatsTime)
  /\ NotDb

NextStats ==
  \/ LogStats
  \/ UsageStats
  \/ PurgeStats
  \/ ClockStats

SpecStats == InitStats /\ [][NextStats]_vars

(***************************************************************************)
(* SpecStore: the calls that read and write the two tables, at one reading *)
(* of the clock; a token created with expires_days = -1 is already past    *)
(* its expires_at.                                                         *)
(***************************************************************************)
StoreDaysInputs == {None, Some(-1)}
Endpoints == {"search_bills", "get_votes"}

CreateTokenStore ==
  /\ \E d \in StoreDaysInputs : create_token("name", "standard", d)
  /\ NotTM

RecordUsage ==
  /\ \E i \in DOMAIN tokens, e \in Endpoints : record_usage(i, e, None, 200)
  /\ NotTM

ListTokens ==
  /\ \E a \in BOOLEAN : list_tokens(a)
  /\ NotTM

NextStore ==
  \/ CreateTokenStore
  \/ Validate
  \/ RecordUsage
  \/ Revoke
  \/ Cleanup
  \/ ListTokens

SpecStore == Init /\ [][NextStore]_vars

(***************************************************************************)
(* SpecSweep: tokens are created, validated and revoked and usage events   *)
(* are logged while the clock advances, and the two sweeps run in between: *)
(* cleanup_expired on the tokens table of TokenManager and                 *)
(* cleanup_old_usage on the token_usage table of TokenDatabase.            *)
(***************************************************************************)
SweepDaysInputs == {None, Some(1)}
SweepRetention == {0, 1}

CreateSweep ==
  /\ \E d \in SweepDaysInputs : create_token("name", "standard", d)
  /\ NotTM

ValidateSweep ==
  /\ \E t \in TokenInputs : ValidateToken(t)
  /\ \A i, j \in DOMAIN tokens' :
       i # j => tokens'[i].usage_count + tokens'[j].usage_count <= MaxSweepUse
  /\ \A i \in DOMAIN tokens' : tokens'[i].usage_count <= MaxSweepUse
  /\ NotTM

RevokeSweep ==
  /\ \E i \in TokenIds : revoke_token(i)
  /\ NotTM

LogSweep ==
  /\ Len(token_usage) < MaxSweepEvents
  /\ LogUsage("id1", "search_bills", TRUE)
  /\ NotTM

SweepExpired ==
  /\ cleanup_expired
  /\ NotTM

SweepOldUsage ==
  /\ \E days \in SweepRetention : CleanupOldUsage(days)
  /\ NotTM

ClockSweep ==
  /\ Tick(DAY, MaxDays * DAY)
  /\ NotTM

NextSweep ==
  \/ CreateSweep
  \/ ValidateSweep
  \/ RevokeSweep
  \/ LogSweep
  \/ SweepExpired
  \/ SweepOldUsage
  \/ ClockSweep

SpecSweep == Init /\ [][NextSweep]_vars

(***************************************************************************)
(* SpecRL: is_rate_limited called by one caller at a time while the clock  *)
(* advances; every token has its rate_limit and its window.                *)
(***************************************************************************)
RLIds == {"id1", "id2"}
\* window_hours is left at its default by the callers
WindowHours == {1}
RLArgs == [rate_limit : 1..MaxLimit, window_hours : WindowHours]
NotRL == UNCHANGED <<srvVars, concVars, envVars>>

RLInit ==
  /\ usage_windows = <<>>
  /\ rl_args \in [RLIds -> RLArgs]
  /\ rl_log = [i \in RLIds |-> <<>>]
  /\ rl_calls = [th \in Threads |-> Idle]

InitRL == TMInit /\ RLInit /\ SrvIdle /\ ConcIdle

RateLimit ==
  /\ \E i \in RLIds : IsRateLimited(i)
  /\ NotRL

ClockRL ==
  /\ Tick(1, MaxTime)
  /\ UNCHANGED rlVars
  /\ NotRL

NextRL ==
  \/ RateLimit
  \/ ClockRL

SpecRL == InitRL /\ [][NextRL]_vars

(***************************************************************************)
(* SpecRLConc: is_rate_limited called from two threads, which interleave   *)
(* between its statements.                                                 *)
(***************************************************************************)
\* the threads serve requests made with one token
Enter ==
  /\ \E th \in Threads : RLEnter(th, "id1")
  /\ NotRL

Clean ==
  /\ \E th \in Threads : RLClean(th)
  /\ NotRL

Check ==
  /\ \E th \in Threads : RLCheck(th)
  /\ NotRL

Record ==
  /\ \E th \in Threads : RLRecord(th)
  /\ NotRL

NextRLConc ==
  \/ Enter
  \/ Clean
  \/ Check
  \/ Record
  \/ ClockRL

SpecRLConc == InitRL /\ [][NextRLConc]_vars

(***************************************************************************)
(* SpecPerm: check_permission of the stateless server applied to a         *)
(* token_info and a tool name.                                             *)
(***************************************************************************)
PermissionInputs == {"read_only", "standard", "admin", "superuser"}
TokenInfoInputs ==
  {None} \cup {Some([id |-> "id1", name |-> "name", permissions |-> p]) :
                 p \in PermissionInputs}
ToolInputs == AllTools \cup {"get_token_info", "calculate_legislative_stats"}

InitPerm ==
  /\ TMInit /\ RLIdle /\ ConcIdle
  /\ server = "stateless"
  /\ REQUIRE_AUTH \in BOOLEAN
  /\ cache = <<>>
  /\ current_token_info = None
  /\ call \in [outcome : {"input"}, name : ToolInputs, token_info : TokenInfoInputs]

CheckPermission ==
  /\ call.outcome = "input"
  /\ call' = [outcome |-> "checked", name |-> call.name, token_info |-> call.token_info,
              permitted |-> check_permission(call.token_info, call.name)]
  /\ UNCHANGED <<tmVars, rlVars, concVars, envVars, server, REQUIRE_AUTH, cache,
                 current_token_info>>

NextPerm ==
  \/ CheckPermission

SpecPerm == InitPerm /\ [][NextPerm]_vars

(***************************************************************************)
(* SpecServer: one of the two servers handles tool calls, one at a time,   *)
(* on a database that holds a token created before the server started;     *)
(* the token can be revoked while the server runs.                         *)
(***************************************************************************)
ServerTools == {"authenticate", "get_token_info", "search_bills", "get_votes"}
CallTokens == {"enact_a", "invalid_token_12345", ""}
NotSrv == UNCHANGED <<rlVars, concVars, envVars>>

\* the row create_token inserted for the token
CreatedRow(token, permissions) ==
  [name |-> "name", token_hash |-> _hash_token(token), created_at |-> 0,
   last_used |-> None, expires_at |-> None, permissions |-> permissions,
   active |-> 1, usage_count |-> 0]

\* the database after create_token("name", permissions) returned ("id1", "enact_a")
OneToken(permissions) ==
  /\ now = 0
  /\ secret_key = "key"
  /\ tokens = [i \in {"id1"} |-> CreatedRow("enact_a", permissions)]
  /\ token_usage = <<>>
  /\ ret = [op |-> "none"]
  /\ issued = [t \in {"enact_a"} |-> "id1"]
  /\ successes = [i \in {"id1"} |-> 0]
  /\ revoked = {}
  /\ created_days = [i \in {"id1"} |-> None]
  /\ EnvSet

InitServer ==
  /\ \E p \in PermissionInputs : OneToken(p)
  /\ RLIdle /\ ConcIdle
  /\ server \in {"stateless", "local_auth"}
  /\ REQUIRE_AUTH \in BOOLEAN
  /\ cache = <<>>
  /\ call = [outcome |-> "none"]
  /\ current_token_info = None

CallTool ==
  /\ \E name \in ServerTools, token \in CallTokens : HandleCallTool(name, token)
  /\ NotSrv

Returns ==
  /\ ToolReturns
  /\ NotSrv

Raises ==
  /\ ToolRaises
  /\ NotSrv

RevokeSrv ==
  /\ \E i \in DOMAIN tokens : revoke_token(i)
  /\ UNCHANGED srvVars
  /\ NotSrv

ClockSrv ==
  /\ Tick(1, MaxSrvTime)
  /\ UNCHANGED srvVars
  /\ NotSrv

NextServer ==
  \/ CallTool
  \/ Returns
  \/ Raises
  \/ RevokeSrv
  \/ ClockSrv

SpecServer == InitServer /\ [][NextServer]_vars

(***************************************************************************)
(* SpecUsage: one of the two servers handles tool calls while the INSERT   *)
(* into the usage table can fail with a storage error.                     *)
(***************************************************************************)
InitUsage ==
  /\ \E p \in {"read_only", "standard", "admin"} : OneToken(p)
  /\ RLIdle /\ ConcIdle
  /\ server \in {"stateless", "local_auth"}
  /\ REQUIRE_AUTH \in BOOLEAN
  /\ cache = <<>>
  /\ call = [outcome |-> "none"]
  /\ current_token_info = None

CallToolStorage ==
  /\ \E name \in ServerTools, token \in CallTokens, storage_error \in BOOLEAN :
       HandleCallToolStorage(name, token, storage_error)
  /\ NotSrv

ReturnsUsage ==
  /\ ToolReturns
  /\ NotSrv

RaisesUsage ==
  /\ ToolRaises
  /\ NotSrv

NextUsage ==
  \/ CallToolStorage
  \/ ReturnsUsage
  \/ RaisesUsage

SpecUsage == InitUsage /\ [][NextUsage]_vars

(***************************************************************************)
(* SpecConc: threads call validate_token on one database, interleaved at   *)
(* their SQL statements, while the clock advances.                         *)
(***************************************************************************)
InitConc ==
  /\ OneToken("standard")
  /\ RLIdle /\ SrvIdle
  /\ conns = [th \in Threads |-> Idle]
  /\ db_lock = None

NotConc == UNCHANGED <<rlVars, srvVars, envVars>>

Select ==
  /\ \E th \in Threads, token \in {"enact_a", "invalid_token_12345"} : VSelect(th, token)
  /\ NotConc

Update ==
  /\ \E th \in Threads : VUpdate(th)
  /\ NotConc

Busy ==
  /\ \E th \in Threads : VBusy(th)
  /\ NotConc

Commit ==
  /\ \E th \in Threads : VCommit(th)
  /\ NotConc

ClockConc ==
  /\ Tick(1, MaxSrvTime)
  /\ UNCHANGED concVars
  /\ NotConc

NextConc ==
  \/ Select
  \/ Update
  \/ Busy
  \/ Commit
  \/ ClockConc

SpecConc == InitConc /\ [][NextConc]_vars

(***************************************************************************)
(* SpecConcRevoke: threads call validate_token, interleaved at their SQL   *)
(* statements, while the token is revoked from another connection.         *)
(***************************************************************************)
SelectRevoke ==
  /\ \E th \in Threads, token \in {"enact_a", "invalid_token_12345"} : VSelect(th, token)
  /\ NotConc

UpdateRevoke ==
  /\ \E th \in Threads : VUpdate(th)
  /\ NotConc

BusyRevoke ==
  /\ \E th \in Threads : VBusy(th)
  /\ NotConc

CommitRevoke ==
  /\ \E th \in Threads : VCommit(th)
  /\ NotConc

RevokeDuring ==
  /\ \E i \in DOMAIN tokens : RevokeConcurrent(i)
  /\ UNCHANGED concVars
  /\ NotConc

ClockRevoke ==
  /\ Tick(1, MaxSrvTime)
  /\ UNCHANGED concVars
  /\ NotConc

NextConcRevoke ==
  \/ SelectRevoke
  \/ UpdateRevoke
  \/ BusyRevoke
  \/ CommitRevoke
  \/ RevokeDuring
  \/ ClockRevoke

SpecConcRevoke == InitConc /\ [][NextConcRevoke]_vars

(***************************************************************************)
(* SpecRetry: requests to the two APIs, one at a time, each answered by    *)
(* the API at every attempt.                                               *)
(***************************************************************************)
Apis == {"congress", "govinfo"}
Responses ==
  {ConnectError, Response(200, None, TRUE), Response(200, None, FALSE),
   Response(404, None, TRUE), Response(429, None, TRUE), Response(500, None, TRUE),
   Response(503, None, TRUE), Response(503, Some("120"), TRUE),
   Response(503, Some("http-date"), TRUE)}

InitRetry ==
  /\ FreshDatabase
  /\ EnvSet
  /\ secret_key = "key"
  /\ RLIdle /\ ConcIdle
  /\ server = "none"
  /\ REQUIRE_AUTH = TRUE
  /\ cache = <<>>
  /\ call = [pc |-> "done", outcome |-> "idle"]
  /\ current_token_info = None

NotRetry == UNCHANGED <<rlVars, concVars, envVars>>

RequestApi ==
  /\ \E api \in Apis, key \in BOOLEAN, cached \in BOOLEAN, max_retries \in 1..MaxRetries :
       MakeRequest(api, key, cached, max_retries)
  /\ NotRetry

Answer ==
  /\ \E response \in Responses : Attempt(response)
  /\ NotRetry

NextRetry ==
  \/ RequestApi
  \/ Answer

SpecRetry == InitRetry /\ [][NextRetry]_vars

(***************************************************************************)
(* Properties of TokenManager.                                             *)
(***************************************************************************)
\* the last step was validate_token called with the secret issued for a token
ValidatedIssued == ret.op = "validate_token" /\ ret.token \in DOMAIN issued

\* C1: once revoke_token has returned True for a token, a validate_token call
\* with that token's secret returns None
C1_RevokedIsRejected ==
  (ValidatedIssued /\ issued[ret.token] \in revoked) => ret.result = None

C1_Witness ==
  /\ ValidatedIssued
  /\ issued[ret.token] \in revoked
  /\ ret.result = None
  /\ successes[issued[ret.token]] > 0

\* C2: validate_token returns None for a token whose expires_at is earlier
\* than the clock, whatever its active flag
C2_ExpiredIsRejected ==
  ValidatedIssued =>
    LET row == tokens[issued[ret.token]]
    IN (row.expires_at # None /\ row.expires_at[1] < now) => ret.result = None

C2_Witness ==
  /\ ValidatedIssued
  /\ LET row == tokens[issued[ret.token]]
     IN /\ row.expires_at # None
        /\ row.expires_at[1] < now
        /\ row.active = 1
        /\ ret.result = None

\* C3: usage_count of every token is the number of validate_token calls that
\* returned its details; a call that returns details adds 1 to the
\* usage_count of that token, sets its last_used and changes nothing else,
\* and a call that returns None changes no row
C3_CountInv ==
  \A i \in DOMAIN tokens : tokens[i].usage_count = successes[i]

C3_ValidateStep ==
  ret'.op = "validate_token" =>
    IF ret'.result = None
    THEN tokens' = tokens
    ELSE LET i == ret'.result[1].id
         IN tokens' = [tokens EXCEPT ![i].usage_count = @ + 1,
                                     ![i].last_used = Some(now)]

C3_UsageCountIsSuccesses == []C3_CountInv /\ [][C3_ValidateStep]_vars

C3_Witness ==
  /\ ret.op = "validate_token"
  /\ ret.result = None
  /\ ret.token \in DOMAIN issued
  /\ \E i \in DOMAIN tokens : tokens[i].usage_count = 2
  /\ \E i \in DOMAIN tokens : tokens[i].usage_count = 1

\* the TEXT values of a record
TextOf(r, fields) == {r[f] : f \in fields \cap DOMAIN r}

\* the raw secrets and the stored digests
RawSecrets == TokenInputs
StoredHashes == {tokens[i].token_hash : i \in DOMAIN tokens}

\* C5: the tables hold the HMAC digest of a secret and never a raw secret;
\* create_token returns the secret it issued, and what validate_token and
\* list_tokens return holds neither a raw secret nor a stored hash
C5_SecretNeverStored ==
  /\ \A i \in DOMAIN tokens :
        /\ ({i} \cup TextOf(tokens[i], {"name", "token_hash", "permissions"}))
              \cap RawSecrets = {}
        /\ \E t \in DOMAIN issued :
              issued[t] = i /\ tokens[i].token_hash = _hash_token(t)
  /\ \A k \in DOMAIN token_usage :
        TextOf(token_usage[k], {"token_id", "endpoint"}) \cap RawSecrets = {}
  /\ (ret.op = "create_token" /\ ret.raised = "") =>
        /\ issued[ret.result[2]] = ret.result[1]
        /\ Cardinality({i \in DOMAIN tokens :
                          tokens[i].token_hash = _hash_token(ret.result[2])}) = 1
  /\ ret.op = "list_tokens" =>
        \A k \in DOMAIN ret.result :
          /\ "token_hash" \notin DOMAIN ret.result[k]
          /\ TextOf(ret.result[k], {"id", "name", "token_hash", "permissions"})
                \cap (RawSecrets \cup StoredHashes) = {}
  /\ (ret.op = "validate_token" /\ ret.result # None) =>
        TextOf(ret.result[1], {"id", "name", "token_hash", "permissions"})
          \cap (RawSecrets \cup StoredHashes) = {}

C5_Witness ==
  /\ ret.op = "list_tokens"
  /\ Len(ret.result) = 2
  /\ Len(token_usage) > 0

\* C8: a token created with expires_days = 0 is rejected by a validate_token
\* call made after its creation
C8_ZeroDaysIsRejected ==
  (/\ ValidatedIssued
   /\ created_days[issued[ret.token]] = Some(0)
   /\ tokens[issued[ret.token]].created_at < now) => ret.result = None

\* C11: a token that create_token issued is still accepted by validate_token
\* after the process has restarted on the same database, and the rows of the
\* issued tokens hold the digests the new process computes, also when
\* TOKEN_SECRET_KEY is not set.
C11_AcceptedAfterRestart ==
  /\ (restarts > 0 /\ ValidatedIssued) => ret.result # None
  /\ \A t \in DOMAIN issued : tokens[issued[t]].token_hash = _hash_token(t)

\* C12: every secret an issuer of the system returns (generate_token of
\* TokenSecurity, create_token of TokenManager) satisfies verify_token_format.
C12_IssuedSecretsWellFormed ==
  (call.outcome = "checked" /\ call.issuer \in {"generate_token", "create_token"})
    => call.ok

(***************************************************************************)
(* Properties of IPValidator, checked under SpecIP.                        *)
(***************************************************************************)
\* how many of the leading prefix bits fall in part j of an address
PrefixBitsIn(j, prefix) ==
  IF prefix <= 8 * (j - 1) THEN 0
  ELSE IF prefix >= 8 * j THEN 8 ELSE prefix - 8 * (j - 1)

\* the address lies inside the block of the CIDR entry: the leading prefix
\* bits of the two are the same
InsideBlock(address, entry) ==
  /\ entry.prefix # None
  /\ ParsesAsAddress(entry.text) /\ entry.prefix[1] \in 0..32
  /\ \A j \in 1..4 :
       address[j] \div 2^(8 - PrefixBitsIn(j, entry.prefix[1]))
         = entry.text[j] \div 2^(8 - PrefixBitsIn(j, entry.prefix[1]))

\* the address equals the exact entry or lies inside the CIDR entry
MatchesEntry(address, entry) ==
  \/ entry.prefix = None /\ entry.text = address
  \/ InsideBlock(address, entry)

\* a CIDR entry that is not the text of a network
MalformedCidr(entry) ==
  entry.prefix # None /\ ~(ParsesAsAddress(entry.text) /\ entry.prefix[1] \in 0..32)

\* C13 as stated: is_ip_in_whitelist returns True when the whitelist is
\* None; otherwise it returns True exactly when the address parses as an IP
\* and equals an exact entry or lies inside a CIDR entry.
C13_WhitelistAsStated ==
  call.outcome = "checked" =>
    call.ok = (IF call.whitelist = None THEN TRUE
               ELSE /\ ParsesAsAddress(call.ip_address)
                    /\ \E k \in DOMAIN call.whitelist[1] :
                         MatchesEntry(call.ip_address, call.whitelist[1][k]))

\* C13 (amended): is_ip_in_whitelist returns True when the whitelist is None
\* or empty; otherwise it returns True exactly when the address parses as an
\* IP and some entry matches it (the exact entry equals the address, or the
\* address lies inside the CIDR entry) with no malformed CIDR entry before
\* that entry in the list.
C13_Whitelist ==
  call.outcome = "checked" =>
    call.ok = (IF call.whitelist = None \/ call.whitelist[1] = <<>> THEN TRUE
               ELSE /\ ParsesAsAddress(call.ip_address)
                    /\ \E k \in DOMAIN call.whitelist[1] :
                         /\ MatchesEntry(call.ip_address, call.whitelist[1][k])
                         /\ \A j \in 1..(k - 1) :
                              ~MalformedCidr(call.whitelist[1][j]))

\* the address one bit outside the block 10.0.0.0/24 has been rejected
C13_Witness ==
  /\ call.outcome = "checked"
  /\ call.ip_address = <<10, 0, 1, 5>>
  /\ call.whitelist = Some(<<Cidr(<<10, 0, 0, 0>>, 24)>>)
  /\ ~call.ok

(***************************************************************************)
(* Properties of TokenValidator, checked under SpecGate.                   *)
(***************************************************************************)
\* the checks of the call, judged from its arguments and the clock
GateFormatOk == verify_token_format(call.token)
GateActive == call.token_data.is_active
GateUnexpired ==
  call.token_data.expires_at = None \/ now <= call.token_data.expires_at[1]
GateToolOk ==
  \/ call.token_data.allowed_tools = None
  \/ \E k \in DOMAIN call.token_data.allowed_tools[1] :
       call.token_data.allowed_tools[1][k] = call.tool_name
GateIpOk ==
  \/ call.ip_address = None
  \/ call.token_data.ip_whitelist = None
  \/ InsideBlock(call.ip_address[1], call.token_data.ip_whitelist[1][1])

\* the timestamps of the token inside the window when the call was made
GateQuotaUsed ==
  IF call.token_data.id \in DOMAIN call.before
  THEN Cardinality({k \in DOMAIN call.before[call.token_data.id] :
                      call.before[call.token_data.id][k] > now - HOUR})
  ELSE 0

GateQuotaFull == GateQuotaUsed >= call.token_data.rate_limit

\* C18: validate_token_request checks the format, the active flag, the
\* expiry, the allowed tools, the IP whitelist and the rate limit in this
\* order and returns the first failure; a tool outside allowed_tools is
\* rejected with the permission message whether or not the quota is
\* exhausted; a request rejected before the rate limiter leaves the windows
\* as they were
C18_FirstFailureInOrder ==
  call.outcome = "validated" =>
    LET message == call.result[2]
        first ==
          IF ~GateFormatOk THEN "Invalid token format"
          ELSE IF ~GateActive THEN "Token is inactive or revoked"
          ELSE IF ~GateUnexpired THEN "Token has expired"
          ELSE IF ~GateToolOk
          THEN "Token does not have permission for tool: " \o call.tool_name
          ELSE IF ~GateIpOk THEN "IP address not in whitelist"
          ELSE IF GateQuotaFull THEN "Rate limit exceeded"
          ELSE "Token validated successfully"
    IN /\ message = first
       /\ call.result[1] = (message = "Token validated successfully")
       /\ message \notin {"Rate limit exceeded", "Token validated successfully"}
            => usage_windows = call.before

\* a tool outside allowed_tools was rejected for the permission while the
\* quota of the token was exhausted, and the windows are as they were
C18_Witness ==
  /\ call.outcome = "validated"
  /\ GateFormatOk /\ GateActive /\ GateUnexpired
  /\ ~GateToolOk
  /\ GateQuotaFull
  /\ call.result = <<FALSE, "Token does not have permission for tool: get_votes">>
  /\ usage_windows = call.before

(***************************************************************************)
(* Properties of the dashboard, checked under SpecDash.                    *)
(***************************************************************************)
\* the request presented the secret of token i in a Bearer header
Presented(i) ==
  /\ call.auth_header # None
  /\ StartsWith(call.auth_header[1], BEARER)
  /\ call.before[i].hashed_token =
       hash_token(SubSeq(call.auth_header[1], Len(BEARER) + 1, Len(call.auth_header[1])))

\* the credential of the request is that of a token that was active,
\* unexpired and of the admin tier when the request was made
AdminCredential ==
  \E i \in DOMAIN call.before :
    /\ Presented(i)
    /\ call.before[i].is_active
    /\ call.before[i].expires_at = None \/ now <= call.before[i].expires_at[1]
    /\ call.before[i].permissions = "admin"

C15_StatusPerCause ==
  (call.outcome = "responded" /\ call.handler = None) =>
    /\ call.detail \in {"Malformed", "InvalidCredential", "Revoked", "Expired"}
         => call.status_code = 401
    /\ call.detail \in {"ToolNotPermitted", "IpNotWhitelisted"}
         => call.status_code = 403
    /\ call.detail = "RateLimited" => call.status_code = 429

(***************************************************************************)
(* Properties of rotate_token, checked under SpecRotate.                   *)
(***************************************************************************)
\* a request with the secret, for a tool every tier permits, would be
\* authenticated now
Validates(token) == authenticate_token(BEARER \o token, "search_bills", None).is_valid

C21_AllowListEnforced ==
  call.outcome = "validated" =>
    (call.result[1] <=>
       \/ call.allowed_tools = None
       \/ \E k \in DOMAIN call.allowed_tools[1] :
            call.allowed_tools[1][k] = call.tool_name)

(***************************************************************************)
(* Properties of the tokens table of TokenDatabase, checked under SpecDb.  *)
(***************************************************************************)
\* C23: revoking a token that is already revoked reports success and
\* changes nothing: a revoked token stays inactive and its revoked_at,
\* revoked_by and revoked_reason are those its first revocation wrote.
C23_RevokeIsIdempotent ==
  /\ ret.op = "revoke_token" => ret.result
  /\ \A i \in DOMAIN revoked :
       /\ ~tokens[i].is_active
       /\ tokens[i].revoked_at = revoked[i].revoked_at
       /\ tokens[i].revoked_by = revoked[i].revoked_by
       /\ tokens[i].revoked_reason = revoked[i].revoked_reason

(***************************************************************************)
(* Properties of the INSERT of a token, checked under Spec (TokenManager)  *)
(* and SpecDb (TokenDatabase).                                             *)
(***************************************************************************)
\* C24: no two rows of the tokens table share an id or a hashed secret, and
\* a creation whose hashed secret is already stored is reported to the
\* caller as a failure: it does not leave create_token as an exception.
C24_DuplicateIsReportedFailure ==
  /\ \A i, j \in DOMAIN tokens :
       i # j => tokens[i].token_hash # tokens[j].token_hash
  /\ (ret.op = "create_token" /\ ret.duplicate) => ret.raised = ""

\* TokenDatabase.create_token: the rows keep distinct ids and hashed
\* secrets, and an insert of a stored hashed secret returns False and
\* leaves the table as it was
TokenDatabaseRowsAreUnique ==
  \A i, j \in DOMAIN tokens :
    /\ tokens[i].id = i
    /\ i # j => tokens[i].hashed_token # tokens[j].hashed_token

TokenDatabaseDuplicateReturnsFalse ==
  [][(ret'.op = "create_token" /\ ret'.duplicate) =>
       (~ret'.result /\ tokens' = tokens)]_vars

(***************************************************************************)
(* Properties of the reads of the tokens table, checked under SpecDb.      *)
(***************************************************************************)
\* the ids of the tokens that were stored, and of those never revoked
StoredIds == {issued[h] : h \in DOMAIN issued}
NeverRevokedIds == StoredIds \ DOMAIN revoked

\* C25: get_token_by_hash returns a token only while it is active and
\* get_token_by_id returns it active or revoked; list_tokens returns
\* exactly the active tokens, or with include_inactive all tokens, each
\* once and newest created first.
C25_ReadsSeeActiveOrAll ==
  /\ ret.op = "get_token_by_hash" =>
       LET h == hash_token(ret.arg)
       IN IF h \in DOMAIN issued /\ issued[h] \in NeverRevokedIds
          THEN ret.result # None /\ ret.result[1].id = issued[h]
          ELSE ret.result = None
  /\ ret.op = "get_token_by_id" =>
       IF ret.arg \in StoredIds
       THEN ret.result # None /\ ret.result[1].id = ret.arg
       ELSE ret.result = None
  /\ ret.op = "list_tokens" =>
       /\ {ret.result[k].id : k \in DOMAIN ret.result}
            = IF ret.arg THEN StoredIds ELSE NeverRevokedIds
       /\ \A a, b \in DOMAIN ret.result :
            a < b => /\ ret.result[a].id # ret.result[b].id
                     /\ ret.result[a].created_at >= ret.result[b].created_at

\* a listing of all tokens holds a revoked token behind an active one that
\* was created later
C25_Witness ==
  /\ ret.op = "list_tokens"
  /\ ret.arg
  /\ Len(ret.result) = 2
  /\ ret.result[1].created_at > ret.result[2].created_at
  /\ ret.result[1].is_active
  /\ ~ret.result[2].is_active

(***************************************************************************)
(* Properties of the usage statistics, checked under SpecStats.            *)
(***************************************************************************)
\* the sum of the counts of a per-tool breakdown
RECURSIVE SumOfCounts(_)
SumOfCounts(counts) ==
  IF DOMAIN counts = {} THEN 0
  ELSE LET t == CHOOSE t \in DOMAIN counts : TRUE
       IN counts[t] + SumOfCounts([u \in DOMAIN counts \ {t} |-> counts[u]])

\* C26: get_usage_stats counts exactly the events of the token that are
\* no older than the window: total_requests is their number,
\* successful_requests the number of them with success set, error_rate is
\* (total - successful)/total, and 0 without events, and the per-tool
\* counts add up to total_requests.
C26_StatsCountTheWindow ==
  ret.op = "get_usage_stats" =>
    LET inside == {k \in DOMAIN token_usage :
                     /\ token_usage[k].token_id = ret.token_id
                     /\ now - token_usage[k].timestamp <= ret.hours * HOUR}
        total == Cardinality(inside)
        successful == Cardinality({k \in inside : token_usage[k].success})
        rate == ret.result.error_rate
    IN /\ ret.result.total_requests = total
       /\ ret.result.successful_requests = successful
       /\ rate[2] > 0
       /\ IF total = 0 THEN rate[1] = 0
          ELSE rate[1] * total = (total - successful) * rate[2]
       /\ SumOfCounts(ret.result.tools_usage) = total

\* the statistics of five successes and two failures: 7 requests and an
\* error rate of 2/7, while the table holds an event of another token
C26_Witness ==
  /\ ret.op = "get_usage_stats"
  /\ ret.result.total_requests = 7
  /\ ret.result.error_rate = <<2, 7>>
  /\ Len(token_usage) > 7

(***************************************************************************)
(* Properties of the two sweeps, checked under SpecSweep.                  *)
(***************************************************************************)
\* a step of cleanup_expired: the rows that are active and past their
\* expires_at become inactive and are counted, and nothing else changes
SweepExpiredExact ==
  LET hit == {i \in DOMAIN tokens :
                /\ tokens[i].active = 1
                /\ tokens[i].expires_at # None
                /\ tokens[i].expires_at[1] < now}
  IN /\ ret'.result = Cardinality(hit)
     /\ DOMAIN tokens' = DOMAIN tokens
     /\ \A i \in hit : tokens'[i] = [tokens[i] EXCEPT !.active = 0]
     /\ \A i \in DOMAIN tokens \ hit : tokens'[i] = tokens[i]
     /\ token_usage' = token_usage

\* a step of cleanup_old_usage: the events older than the cutoff are gone,
\* the others stay as they were and in their order, and no token changes
SweepOldUsageExact ==
  LET Stays(event) == event.timestamp >= now - ret'.days * DAY
  IN /\ token_usage' = SelectSeq(token_usage, Stays)
     /\ ret'.deleted_count = Len(token_usage) - Len(token_usage')
     /\ tokens' = tokens

\* what validate_token returns for every secret is the same after the step
SameValidation ==
  \A t \in TokenInputs : validate_token(t).result' = validate_token(t).result

\* validate_token accepts the secrets of the tokens that were created, were
\* not revoked by revoke_token and are not past their expires_at, whatever
\* the sweeps have done
ValidationIgnoresSweeps ==
  ret.op = "validate_token" =>
    (ret.result # None <=>
       /\ ret.token \in DOMAIN issued
       /\ issued[ret.token] \notin revoked
       /\ ~Expired(tokens[issued[ret.token]].expires_at))

\* C27: cleanup_expired deactivates exactly the active tokens whose
\* expires_at is in the past and returns their number, cleanup_old_usage
\* deletes exactly the usage events older than the cutoff, neither changes
\* another row or event, and neither changes what validate_token returns.
C27_SweepsAreExact ==
  /\ [][/\ ret'.op = "cleanup_expired" => (SweepExpiredExact /\ SameValidation)
        /\ ret'.op = "cleanup_old_usage" => (SweepOldUsageExact /\ SameValidation)]_vars
  /\ []ValidationIgnoresSweeps

\* cleanup_old_usage has deleted an event in a database where
\* cleanup_expired has deactivated a token and another token is active
C27_Witness ==
  /\ ret.op = "cleanup_old_usage"
  /\ ret.deleted_count > 0
  /\ \E i \in DOMAIN tokens : tokens[i].active = 0 /\ i \notin revoked
  /\ \E i \in DOMAIN tokens : tokens[i].active = 1

(***************************************************************************)
(* Properties of RateLimiter.                                              *)
(***************************************************************************)
\* the calls of token i that returned False with a timestamp in (lo, hi]
AllowedIn(i, lo, hi) ==
  {k \in DOMAIN rl_log[i] :
     /\ ~rl_log[i][k][2]
     /\ lo < rl_log[i][k][1]
     /\ rl_log[i][k][1] <= hi}

WindowOf(i) == rl_args[i].window_hours * HOUR

\* C4: a call is limited exactly when rate_limit earlier calls of the token
\* were allowed inside the window that ends now: the first rate_limit calls
\* inside a window are allowed, the next one is limited, and a call made when
\* the allowed calls are more than the window old is allowed again
C4_LimitedIffWindowFull ==
  ret.op = "is_rate_limited" =>
    LET i == ret.token_id
        earlier == {k \in AllowedIn(i, now - WindowOf(i), now) : k < Len(rl_log[i])}
    IN ret.result = (Cardinality(earlier) >= rl_args[i].rate_limit)

\* the token was allowed rate_limit calls, then limited inside the window,
\* and is allowed again now that those calls are more than the window old
C4_Witness ==
  /\ ret.op = "is_rate_limited"
  /\ ~ret.result
  /\ LET i == ret.token_id
         n == rl_args[i].rate_limit
     IN /\ n = 2
        /\ Len(rl_log[i]) = n + 2
        /\ \A k \in 1..n : ~rl_log[i][k][2]
        /\ rl_log[i][n + 1][2]
        /\ rl_log[i][n + 1][1] - rl_log[i][1][1] < WindowOf(i)
        /\ \A k \in 1..n : now - rl_log[i][k][1] > WindowOf(i)

\* C10: the calls of a token allowed with timestamps inside one window are
\* never more than its rate limit
C10_WindowNeverOverfull ==
  \A i \in DOMAIN rl_log : \A t \in 0..MaxTime :
    Cardinality(AllowedIn(i, t - WindowOf(i), t)) <= rl_args[i].rate_limit

\* the timestamps of the calls of token i that were allowed, in call order
AcceptedStamps(i) ==
  LET Accepted(entry) == ~entry[2]
      accepted == SelectSeq(rl_log[i], Accepted)
  IN [k \in DOMAIN accepted |-> accepted[k][1]]

\* C20: a limited call records no timestamp: the window of a token holds
\* the timestamps of its allowed calls that were inside the window at its
\* last call, and nothing else; and at every time the allowed calls of a
\* token with timestamps in (now - W, now] are at most its rate limit
C20_RejectedNotRecorded ==
  /\ \A i \in DOMAIN usage_windows :
       LET last == rl_log[i][Len(rl_log[i])][1]
       IN usage_windows[i] = Kept(AcceptedStamps(i), last - WindowOf(i))
  /\ \A i \in DOMAIN rl_log :
       Cardinality(AllowedIn(i, now - WindowOf(i), now)) <= rl_args[i].rate_limit

\* a token with rate limit 1 was allowed a call, limited later inside the
\* window, and allowed again exactly one window after the allowed call
C20_Witness ==
  /\ ret.op = "is_rate_limited"
  /\ ~ret.result
  /\ LET i == ret.token_id
         log == rl_log[i]
     IN /\ rl_args[i].rate_limit = 1
        /\ Len(log) = 3
        /\ ~log[1][2] /\ log[2][2] /\ ~log[3][2]
        /\ log[2][1] > log[1][1]
        /\ log[3][1] - log[1][1] = WindowOf(i)

(***************************************************************************)
(* Properties of the servers, checked under SpecPerm and SpecServer.       *)
(***************************************************************************)
\* the read-only list as the permission tiers are documented
FixedReadOnlyList ==
  {"search_bills", "get_bill", "get_member", "get_committee",
   "get_congress_overview", "get_legislative_process", "search_amendments"}

ServiceSteps == {"cache_hit", "cache_miss", "execute"}

\* the last step was a call of handle_call_tool that looked up the cache or
\* ran the tool logic
Served ==
  /\ ret.op = "handle_call_tool"
  /\ \E k \in DOMAIN call.trace : call.trace[k] \in ServiceSteps

\* in the trace every cache lookup and tool execution comes after the step
Precedes(step, trace) ==
  \A k \in DOMAIN trace :
    trace[k] \in ServiceSteps => \E j \in 1..(k - 1) : trace[j] = step

\* the tier stored for the token permits the tool
TierAllows(permissions, name) ==
  \/ permissions \in {"standard", "admin"}
  \/ permissions = "read_only" /\ name \in FixedReadOnlyList

\* the served call was authenticated and authorized first: the stateless
\* server validated the token of the call, the session server holds the
\* token_info of a token that authenticate validated
AuthorizedFirst ==
  /\ IF server = "stateless"
     THEN /\ call.token \in DOMAIN issued
          /\ tokens[issued[call.token]].active = 1
          /\ Precedes("validate_token", call.trace)
          /\ TierAllows(tokens[issued[call.token]].permissions, call.name)
     ELSE /\ current_token_info # None
          /\ successes[current_token_info[1].id] >= 1
          /\ Precedes("session", call.trace)
          /\ TierAllows(current_token_info[1].permissions, call.name)
  /\ Precedes("check_permission", call.trace)

\* C7 as stated: with REQUIRE_AUTH enabled, every call of a tool other than
\* authenticate that reaches the cache lookup or the tool logic has had its
\* token validated and its permission checked before.
C7_AuthBeforeService_AllTools ==
  (REQUIRE_AUTH /\ Served /\ call.name # "authenticate") => AuthorizedFirst

\* C7 (amended): with REQUIRE_AUTH enabled, every call of a tool other than
\* authenticate and other than get_token_info of the session server that
\* reaches the cache lookup or the tool logic has had its token validated
\* and its permission checked before; get_token_info of the session server
\* is executed for any authenticated session, without a permission check.
C7_AuthBeforeService ==
  /\ (REQUIRE_AUTH /\ Served /\ call.name # "authenticate"
        /\ ~(server = "local_auth" /\ call.name = "get_token_info"))
       => AuthorizedFirst
  /\ (REQUIRE_AUTH /\ Served /\ server = "local_auth"
        /\ call.name = "get_token_info")
       => /\ current_token_info # None
          /\ successes[current_token_info[1].id] >= 1
          /\ Precedes("session", call.trace)

\* a call with a token that is not valid has been rejected while a fresh
\* result of its tool was in the cache
C7_Witness ==
  /\ REQUIRE_AUTH /\ server = "stateless"
  /\ ret.op = "handle_call_tool"
  /\ call.name = "search_bills"
  /\ call.token = "invalid_token_12345"
  /\ call.outcome = "authentication_required"
  /\ "search_bills" \in DOMAIN cache /\ Fresh(cache["search_bills"])

\* the places of a step in the trace of the call
StepsAt(step) == {k \in DOMAIN call.trace : call.trace[k] = step}

\* C16: for every tool call that passed authentication and whose tool logic
\* has run, record_usage was called after the execution and the row it
\* wrote tells the outcome: a failed execution is not recorded with the
\* status of a success
C16_UsageRecordedAfterExecution ==
  (call.outcome \in {"result", "error"} /\ call.token_info # None) =>
    /\ \E e \in StepsAt("execute"), r \in StepsAt("record_usage") : e < r
    /\ call.outcome = "error" =>
         /\ Len(token_usage) > 0
         /\ token_usage[Len(token_usage)].status_code # 200

\* C19: a handle_call_tool call changes the usage_count or the last_used of
\* a token only when it passes every authorization check; a call that is
\* answered "Permission denied" leaves them unchanged
C19_UsageCountOnlyWhenAuthorized ==
  [][(ret'.op = "handle_call_tool"
        /\ \E i \in DOMAIN tokens :
             \/ tokens'[i].usage_count # tokens[i].usage_count
             \/ tokens'[i].last_used # tokens[i].last_used)
       => call'.outcome \notin {"permission_denied", "authentication_required",
                                "authentication_failed", "not_authenticated"}]_vars

\* C28: in the session server, a tool call other than authenticate that
\* arrives after the token of the session was revoked is refused: it is
\* not answered from the cache or the session and does not reach the tool
\* logic.
C28_RevokedSessionIsRefused ==
  (/\ server = "local_auth"
   /\ ret.op = "handle_call_tool"
   /\ call.name # "authenticate"
   /\ current_token_info # None
   /\ current_token_info[1].id \in revoked) =>
     call.outcome \notin {"executing", "cached", "result"}

(***************************************************************************)
(* Properties of usage recording under storage errors, checked under       *)
(* SpecUsage.                                                              *)
(***************************************************************************)
\* C22: a call whose usage INSERT fails with a storage error is still
\* served: it goes on to the cache or the tool logic (or, for authenticate,
\* to its answer) and the failure does not end the handler.
C22_UsageFailureNotPropagated ==
  (call.outcome # "none" /\ call.storage_error) =>
     call.outcome # "storage_error"

(***************************************************************************)
(* Properties of concurrent validation, checked under SpecConc.            *)
(***************************************************************************)
\* C9: whatever the interleaving of the SQL statements of concurrent
\* validate_token calls, usage_count of a token is not less than the number
\* of the calls for it that returned success.
C9_NoLostIncrements ==
  \A i \in DOMAIN tokens : tokens[i].usage_count >= successes[i]

\* two calls that selected the same row before either updated it have both
\* returned success
C9_Witness ==
  /\ \A th \in Threads :
       /\ conns[th].pc = "done" /\ conns[th].result # None
       /\ conns[th].result[1].usage_count = 0
  /\ successes["id1"] = 2


(***************************************************************************)
(* Properties of validation concurrent with revocation, checked under      *)
(* SpecConcRevoke.                                                         *)
(***************************************************************************)
\* C29: whatever the interleaving of validate_token and revoke_token on
\* one token, no step changes usage_count or last_used of a row whose
\* active is already 0, and no validate_token call returns success after
\* the revocation of its token was committed.
C29_RevocationStopsValidation ==
  [][/\ \A i \in DOMAIN tokens :
          tokens[i].active = 0 =>
            /\ tokens'[i].usage_count = tokens[i].usage_count
            /\ tokens'[i].last_used = tokens[i].last_used
     /\ \A th \in Threads :
          (conns[th].pc # "done" /\ conns'[th].pc = "done"
             /\ conns'[th].result # None) =>
            conns'[th].result[1].id \notin revoked]_vars


(***************************************************************************)
(* Properties of the retry loops, checked under SpecRetry.                 *)
(***************************************************************************)
\* C30: a request makes at most max_retries HTTP attempts, and when it
\* completes it has returned a parsed result or raised: it never completes
\* without a result, whatever the last answer was.
C30_RequestReturnsOrRaises ==
  (call.outcome # "idle") =>
     /\ Len(call.log) <= call.max_retries
     /\ call.pc = "done" => call.outcome \in {"returned", "raised"}

====
